---------------------------- MODULE Spec2Model ----------------------------
(***************************************************************************)
(* A model of md_to_tex (src/converter.rs): the line-oriented state        *)
(* machine that converts a Markdown dialect to LaTeX, and the lazy driver  *)
(* `convert` that threads the State through the input lines.               *)
(*                                                                         *)
(* Representation of text.  A line of input is a sequence of characters,   *)
(* each character a string: an ASCII character is the one-character string *)
(* itself, a multi-byte character is named by its code point ("U+00E9",    *)
(* "U+3000"; so is the grave accent, "U+0060", which a TLA+ string cannot  *)
(* hold) and Utf8Len gives its width in bytes, so that Rust's byte         *)
(* indexed slices (&s[1..], &s[2..]) and their char-boundary panics are    *)
(* modelled as the code executes them.  A fragment of output is a sequence *)
(* of symbols: the characters copied from the input, and the fixed LaTeX   *)
(* words the code writes ("\\begin{enumerate}", "\\item ", ...), one       *)
(* symbol per word, the newline always a symbol of its own.  No fixed word *)
(* contains a character any of the patterns looks for, so matching over    *)
(* symbols is matching over the text.                                      *)
(***************************************************************************)
EXTENDS Integers, Sequences, FiniteSets, TLC

VARIABLES state, pc, out, consumed, errs, corpus

vars == <<state, pc, out, consumed, errs, corpus>>

(***************************************************************************)
(* Bounds of the model and constants of the program.                       *)
(***************************************************************************)
\* The longest input a run reads.
MaxLines == 5

\* The longest input a run reads of the families of single lines (the inputs
\* of the Inline Transformer and of the one-line constructs of Text: many
\* different lines, short documents).
MaxShortLines == 2

\* SmallVec<[u8; 4]>: the inline capacity of the indentation stack.
INDENTS_CAPACITY == 4

\* u8::max_value()
U8_MAX == 255

(***************************************************************************)
(* Characters and strings.                                                 *)
(***************************************************************************)
NL == "\n"

\* The grave accent (backtick), one byte.
BACKTICK == "U+0060"

\* char::len_utf8
Utf8Len(ch) ==
  CASE ch = "U+00E9" -> 2
    [] ch = "U+3000" -> 3
    [] OTHER -> 1

\* char::is_whitespace (White_Space): space, tab, U+3000 IDEOGRAPHIC SPACE.
is_whitespace(ch) == ch \in {" ", "\t", "U+3000"}

Digits == {"0", "1", "2", "3", "4", "5", "6", "7", "8", "9"}

MinOf(S) == CHOOSE x \in S : \A y \in S : x <= y
MaxOf(S) == CHOOSE x \in S : \A y \in S : x >= y

\* The suffix of s from position i (1-based), empty when i is past the end.
Tail_from(s, i) == SubSeq(s, i, Len(s))

\* str::len: the length of s in bytes.
RECURSIVE byte_len(_)
byte_len(s) == IF s = <<>> THEN 0 ELSE Utf8Len(Head(s)) + byte_len(Tail(s))

\* str::is_char_boundary(n): n is 0, the length, or the start of a character.
is_char_boundary(s, n) ==
  \E k \in 0..Len(s) : byte_len(SubSeq(s, 1, k)) = n

\* &s[n..] where n is a char boundary: the characters from byte offset n on.
byte_suffix(s, n) ==
  LET k == CHOOSE k \in 0..Len(s) : byte_len(SubSeq(s, 1, k)) = n
  IN  Tail_from(s, k + 1)

\* str::trim
trim(s) ==
  LET idx == {i \in 1..Len(s) : ~is_whitespace(s[i])}
  IN  IF idx = {} THEN <<>> ELSE SubSeq(s, MinOf(idx), MaxOf(idx))

\* line.chars().take_while(|ch| ch.is_whitespace()).count()
leading_whitespace(s) ==
  LET idx == {i \in 1..Len(s) : ~is_whitespace(s[i])}
  IN  IF idx = {} THEN Len(s) ELSE MinOf(idx) - 1

\* p occurs in s at position i.
occurs_at(s, p, i) ==
  /\ i >= 1
  /\ i + Len(p) - 1 <= Len(s)
  /\ SubSeq(s, i, i + Len(p) - 1) = p

\* str::starts_with, str::ends_with, str::contains
starts_with(s, p) == occurs_at(s, p, 1)
ends_with(s, p) == occurs_at(s, p, Len(s) - Len(p) + 1)
contains(s, p) == \E i \in 1..(Len(s) + 1) : occurs_at(s, p, i)

\* The first (last) position at or after `from` where p occurs in s; 0 if none.
find_from(s, p, from) ==
  LET hits == {i \in from..Len(s) : occurs_at(s, p, i)}
  IN  IF hits = {} THEN 0 ELSE MinOf(hits)

find_last_from(s, p, from) ==
  LET hits == {i \in from..Len(s) : occurs_at(s, p, i)}
  IN  IF hits = {} THEN 0 ELSE MaxOf(hits)

\* str::split(ch): the pieces of s between the occurrences of ch.
RECURSIVE split(_, _)
split(s, ch) ==
  LET i == find_from(s, <<ch>>, 1)
  IN  IF i = 0 THEN <<s>>
      ELSE <<SubSeq(s, 1, i - 1)>> \o split(Tail_from(s, i + 1), ch)

\* str::split_terminator(ch): split, the last piece skipped when empty.
split_terminator(s, ch) ==
  LET pieces == split(s, ch)
  IN  IF pieces[Len(pieces)] = <<>>
      THEN SubSeq(pieces, 1, Len(pieces) - 1)
      ELSE pieces

\* [String]::join(sep)
RECURSIVE join(_, _)
join(pieces, sep) ==
  IF pieces = <<>> THEN <<>>
  ELSE IF Len(pieces) = 1 THEN pieces[1]
  ELSE pieces[1] \o sep \o join(Tail(pieces), sep)

\* str::replace(ch, to)
RECURSIVE replace_char(_, _, _)
replace_char(s, ch, to) ==
  IF s = <<>> THEN <<>>
  ELSE (IF Head(s) = ch THEN to ELSE <<Head(s)>>) \o replace_char(Tail(s), ch, to)

\* The number of occurrences of symbol x in s.
count_of(s, x) == Cardinality({i \in 1..Len(s) : s[i] = x})

\* All fragments of a sequence of fragments, concatenated.
RECURSIVE concat(_)
concat(frags) == IF frags = <<>> THEN <<>> ELSE Head(frags) \o concat(Tail(frags))

\* The number of occurrences of symbol x in the fragments frags.
count_in(frags, x) ==
  Cardinality({p \in UNION {{<<i, j>> : j \in 1..Len(frags[i])} :
                              i \in 1..Len(frags)} :
                 frags[p[1]][p[2]] = x})

(***************************************************************************)
(* The Pattern Table (lazy_static!, lines 9-38) as matchers, and           *)
(* Regex::replace_all.  The regex crate finds the leftmost match and, at   *)
(* that start, prefers the longest repetition for `.+`/`.*` and the        *)
(* shortest for `.+?`; replace_all rewrites the non-overlapping matches of *)
(* the original text from left to right.                                   *)
(***************************************************************************)

\* replace_all for a pattern  open (.+?) close : the match starts at the
\* leftmost `open` and ends at the first `close` that leaves at least one
\* character captured; the capture is rewritten to pre ++ capture ++ post.
RECURSIVE replace_all_lazy(_, _, _, _, _)
replace_all_lazy(s, open, close, pre, post) ==
  LET i == find_from(s, open, 1)
      j == IF i = 0 THEN 0 ELSE find_from(s, close, i + Len(open) + 1)
  IN  IF i = 0 \/ j = 0 THEN s
      ELSE SubSeq(s, 1, i - 1)
           \o pre \o SubSeq(s, i + Len(open), j - 1) \o post
           \o replace_all_lazy(Tail_from(s, j + Len(close)), open, close, pre, post)

\* Faulty variant of RE_COMMENT_strip: the text after the comment goes with it.
RE_COMMENT_strip_to_end(s) ==
  LET i == find_from(s, <<"<", "!", "-", "-">>, 1)
      j == IF i = 0 THEN 0 ELSE find_last_from(s, <<"-", "-", ">">>, i + 4)
  IN  IF i = 0 \/ j = 0 THEN s
      ELSE SubSeq(s, 1, i - 1)

\* RE_COMMENT  <!--(.*)-->  replaced by the empty string: `.*` is greedy, so
\* the match runs from the first "<!--" to the last "-->" of the text.
RE_COMMENT_strip(s) ==
  LET i == find_from(s, <<"<", "!", "-", "-">>, 1)
      j == IF i = 0 THEN 0 ELSE find_last_from(s, <<"-", "-", ">">>, i + 4)
  IN  IF i = 0 \/ j = 0 THEN s
      ELSE SubSeq(s, 1, i - 1) \o Tail_from(s, j + 3)

\* RE_LINK  \[(?<text>.+)]\((?<link>.+)\)  : both captures greedy.  The match
\* starts at the leftmost "[" that can match at all; `text` runs to the last
\* "](" that still leaves a non-empty link before a ")", `link` to the last ")".
RE_LINK_replace(s) ==
  LET mids(i) == {k \in (i + 2)..Len(s) :
                    /\ occurs_at(s, <<"]", "(">>, k)
                    /\ find_last_from(s, <<")">>, k + 3) # 0}
      starts == {i \in 1..Len(s) : s[i] = "[" /\ mids(i) # {}}
  IN  IF starts = {} THEN s
      ELSE LET i == MinOf(starts)
               k == MaxOf(mids(i))
               m == find_last_from(s, <<")">>, k + 3)
           IN  SubSeq(s, 1, i - 1)
               \o SubSeq(s, i + 1, k - 1) \o <<" ", "\\url{">>
               \o SubSeq(s, k + 2, m - 1) \o <<"}">>
               \o Tail_from(s, m + 1)

(***************************************************************************)
(* simple_string_process (lines 116-156): the Inline Transformer.          *)
(***************************************************************************)
\* Faulty variant of simple_string_process: the monospace rule runs after
\* the single-quote rule, and takes the grave accents that rule has written.
simple_string_process_mono_late(line) ==
  LET r1 == replace_char(line, "&", <<"\\", "&">>)
      r2 == RE_COMMENT_strip(r1)
      r3 == replace_all_lazy(r2, <<"^">>, <<"^">>, <<"\\textsuperscript{">>, <<"}">>)
      r4 == replace_all_lazy(r3, <<"*">>, <<"*">>, <<"\\textbf{">>, <<"}">>)
      r5 == replace_all_lazy(r4, <<"'">>, <<"'">>, <<BACKTICK>>, <<"'">>)
      r6 == replace_all_lazy(r5, <<BACKTICK>>, <<BACKTICK>>, <<"\\texttt{">>, <<"}">>)
      r7 == replace_all_lazy(r6, <<"\"">>, <<"\"">>, <<BACKTICK, BACKTICK>>, <<"'", "'">>)
      r8 == replace_all_lazy(r7, <<"_">>, <<"_">>, <<"\\emph{">>, <<"}">>)
      r9 == RE_LINK_replace(r8)
      r10 == replace_all_lazy(r9, <<"[", "^">>, <<"]">>, <<"\\footnotemark[">>, <<"]">>)
  IN  r10

simple_string_process(line) ==
  LET r1 == replace_char(line, "&", <<"\\", "&">>)
      r2 == RE_COMMENT_strip(r1)
      r3 == replace_all_lazy(r2, <<"^">>, <<"^">>, <<"\\textsuperscript{">>, <<"}">>)
      r4 == replace_all_lazy(r3, <<"*">>, <<"*">>, <<"\\textbf{">>, <<"}">>)
      r5 == replace_all_lazy(r4, <<BACKTICK>>, <<BACKTICK>>, <<"\\texttt{">>, <<"}">>)
      r6 == replace_all_lazy(r5, <<"'">>, <<"'">>, <<BACKTICK>>, <<"'">>)
      r7 == replace_all_lazy(r6, <<"\"">>, <<"\"">>, <<BACKTICK, BACKTICK>>, <<"'", "'">>)
      r8 == replace_all_lazy(r7, <<"_">>, <<"_">>, <<"\\emph{">>, <<"}">>)
      r9 == RE_LINK_replace(r8)
      r10 == replace_all_lazy(r9, <<"[", "^">>, <<"]">>, <<"\\footnotemark[">>, <<"]">>)
  IN  r10

(***************************************************************************)
(* enum State (lines 67-83).  One record shape for all variants: `indents` *)
(* is the payload of Ordered/Unordered, `line_every_row` of TableBody.     *)
(***************************************************************************)
MkState(tag, indents, flag) ==
  [tag |-> tag, indents |-> indents, line_every_row |-> flag]

Text == MkState("Text", <<>>, FALSE)
Ordered(indents) == MkState("Ordered", indents, FALSE)
Unordered(indents) == MkState("Unordered", indents, FALSE)
Quote == MkState("Quote", <<>>, FALSE)
Code == MkState("Code", <<>>, FALSE)
Figure == MkState("Figure", <<>>, FALSE)
FigureCaption == MkState("FigureCaption", <<>>, FALSE)
TableHeader == MkState("TableHeader", <<>>, FALSE)
TableBody(line_every_row) == MkState("TableBody", <<>>, line_every_row)
TableCaption == MkState("TableCaption", <<>>, FALSE)
Literal == MkState("Literal", <<>>, FALSE)
FootnoteBody == MkState("FootnoteBody", <<>>, FALSE)
NumberedEquation == MkState("NumberedEquation", <<>>, FALSE)
UnnumberedEquation == MkState("UnnumberedEquation", <<>>, FALSE)

(***************************************************************************)
(* Result<(State, String), Error>, and the third outcome of a call: a      *)
(* panic (expect on None, a slice index off a char boundary).              *)
(***************************************************************************)
Ok(st, frag) == [kind |-> "Ok", state |-> st, frag |-> frag, err |-> "none"]
Err(e) == [kind |-> "Err", state |-> Text, frag |-> <<>>, err |-> e]
Panic(e) == [kind |-> "Panic", state |-> Text, frag |-> <<>>, err |-> e]

\* The messages of the bail!/anyhow! sites.
IndentOverflow == "Leading indent cannot be more than 255"
NestingOverflow == "Exceeded this tool's hard-coded limit on the level of nesting"
NestingUnderflow == "Indent level cannot be smaller than the initial indent"
TableLineEnding == "Unexpected line ending for table"
TableHeadings == "Unable to process table headings"
IoFailure == "io::Error"

\* The messages of the panics.
EmptyIndents == "This function shouldn't be called with an empty indents vec."
SliceBoundary == "byte index is not a char boundary"

(***************************************************************************)
(* RE_START_ENUMERATE  ^[0-9]+\. (?<item>.+)$   and                        *)
(* RE_START_ITEMIZE    ^[*+-] (?<item>.+)$                                 *)
(***************************************************************************)
NoMatch == [matched |-> FALSE, item |-> <<>>]

RE_START_ENUMERATE(s) ==
  LET nondigit == {i \in 1..Len(s) : s[i] \notin Digits}
      nd == IF nondigit = {} THEN Len(s) ELSE MinOf(nondigit) - 1
  IN  IF nd >= 1 /\ occurs_at(s, <<".", " ">>, nd + 1) /\ Len(s) >= nd + 3
      THEN [matched |-> TRUE, item |-> Tail_from(s, nd + 3)]
      ELSE NoMatch

RE_START_ITEMIZE(s) ==
  IF Len(s) >= 3 /\ s[1] \in {"*", "+", "-"} /\ s[2] = " "
  THEN [matched |-> TRUE, item |-> Tail_from(s, 3)]
  ELSE NoMatch

\* Faulty variants of nesting_full: the check comes one level late, or one
\* level early.
nesting_full_late(indents) == Len(indents) > INDENTS_CAPACITY
nesting_full_early(indents) == Len(indents) >= INDENTS_CAPACITY - 1

\* if indents.len() == indents.capacity() { bail!(...) }   (lines 191, 271)
nesting_full(indents) == Len(indents) = INDENTS_CAPACITY

\* Faulty variant of at_base_level: the dedent from the second level to the
\* base level is refused as well.
at_base_level_lax(indents) == Len(indents) <= 2

\* if indents.len() <= 1 { bail!(...) }   (lines 212, 292)
at_base_level(indents) == Len(indents) <= 1

\* if indent_u > u8::max_value() as usize { bail!(...) }   (lines 171, 251, 576, 592)
\* Faulty variant of indent_too_large: no count is refused.
indent_too_large_never(indent_u) == FALSE

indent_too_large(indent_u) == indent_u > U8_MAX

\* indent_u as u8   (lines 178, 258, 583, 599): the count modulo 256.
as_u8(indent_u) == indent_u % (U8_MAX + 1)

\* Faulty variant of prepend_close: the closing of the level left is lost.
prepend_close_lost(list_close, subprocessing) == subprocessing

\* let subprocessing = process_line_*(line, &next_indents)?;
\* Ok((subprocessing.0, list_close + &subprocessing.1))   (lines 223-224, 303-304)
prepend_close(list_close, subprocessing) ==
  IF subprocessing.kind # "Ok" THEN subprocessing
  ELSE Ok(subprocessing.state, list_close \o subprocessing.frag)

\* Faulty variant of close_all: only the innermost level is closed.
close_all_innermost(indents, close) == <<close, NL>>

\* indents.iter().map(|_| close).join("\n") + "\n"   (lines 164, 244)
close_all(indents, close) ==
  join([i \in 1..Len(indents) |-> <<close>>], <<NL>>) \o <<NL>>

\* Faulty variant of continuation: the line is not trimmed.
continuation_untrimmed(line) == simple_string_process(line) \o <<NL>>

\* "Continuation of the current item" (lines 226-232, 306-312):
\* simple_string_process(trimmed) + "\n"
continuation(line) == simple_string_process(trim(line)) \o <<NL>>

(***************************************************************************)
(* process_line_ordered (lines 158-234)                                    *)
(***************************************************************************)
RECURSIVE process_line_ordered(_, _)
process_line_ordered(line, indents) ==
  LET trimmed == trim(line)
      cap == RE_START_ENUMERATE(trimmed)
      indent_u == leading_whitespace(line)
  IN  IF trimmed = <<>> THEN
        Ok(Text, close_all(indents, "\\end{enumerate}"))
      ELSE IF cap.matched THEN
        IF indent_too_large(indent_u) THEN Err(IndentOverflow)
        ELSE IF indents = <<>> THEN Panic(EmptyIndents)
        ELSE LET indent == as_u8(indent_u)
                 prev_indent == indents[Len(indents)]
             IN  IF indent = prev_indent THEN
                   Ok(Ordered(indents),
                      <<"\\item ">> \o simple_string_process(cap.item) \o <<NL>>)
                 ELSE IF indent > prev_indent THEN
                   IF nesting_full(indents) THEN Err(NestingOverflow)
                   ELSE Ok(Ordered(Append(indents, indent)),
                           <<"\\begin{enumerate}", NL, "\\item ">>
                           \o simple_string_process(cap.item) \o <<NL>>)
                 ELSE
                   IF at_base_level(indents) THEN Err(NestingUnderflow)
                   ELSE LET next_indents == SubSeq(indents, 1, Len(indents) - 1)
                            subprocessing == process_line_ordered(line, next_indents)
                        IN  prepend_close(<<"\\end{enumerate}", NL>>, subprocessing)
      ELSE
        Ok(Ordered(indents), continuation(line))

(***************************************************************************)
(* process_line_unordered (lines 235-314)                                  *)
(***************************************************************************)
RECURSIVE process_line_unordered(_, _)
process_line_unordered(line, indents) ==
  LET trimmed == trim(line)
      cap == RE_START_ITEMIZE(trimmed)
      indent_u == leading_whitespace(line)
  IN  IF trimmed = <<>> THEN
        Ok(Text, close_all(indents, "\\end{itemize}"))
      ELSE IF cap.matched THEN
        IF indent_too_large(indent_u) THEN Err(IndentOverflow)
        ELSE IF indents = <<>> THEN Panic(EmptyIndents)
        ELSE LET indent == as_u8(indent_u)
                 prev_indent == indents[Len(indents)]
             IN  IF indent = prev_indent THEN
                   Ok(Unordered(indents),
                      <<"\\item ">> \o simple_string_process(cap.item) \o <<NL>>)
                 ELSE IF indent > prev_indent THEN
                   IF nesting_full(indents) THEN Err(NestingOverflow)
                   ELSE Ok(Unordered(Append(indents, indent)),
                           <<"\\begin{itemize}", NL, "\\item ">>
                           \o simple_string_process(cap.item) \o <<NL>>)
                 ELSE
                   IF at_base_level(indents) THEN Err(NestingUnderflow)
                   ELSE LET next_indents == SubSeq(indents, 1, Len(indents) - 1)
                            subprocessing == process_line_unordered(line, next_indents)
                        IN  prepend_close(<<"\\end{itemize}", NL>>, subprocessing)
      ELSE
        Ok(Unordered(indents), continuation(line))

(***************************************************************************)
(* The block handlers (lines 315-444)                                      *)
(***************************************************************************)
\* "\\label{" as the characters of an input line.
LABEL_PREFIX == <<"\\", "l", "a", "b", "e", "l", "{">>

\* Faulty variant of process_line_quote: the blank line leaves the quote
\* without closing it.
process_line_quote_unclosed(line) ==
  LET trimmed == trim(line)
  IN  IF trimmed = <<>> THEN Ok(Text, <<NL>>)
      ELSE IF starts_with(trimmed, <<">", " ">>) THEN
        Ok(Quote, simple_string_process(byte_suffix(trimmed, 2)) \o <<NL>>)
      ELSE IF starts_with(trimmed, <<">">>) THEN
        Ok(Quote, simple_string_process(byte_suffix(trimmed, 1)) \o <<NL>>)
      ELSE Ok(Quote, simple_string_process(trimmed) \o <<NL>>)

process_line_quote(line) ==
  LET trimmed == trim(line)
  IN  IF trimmed = <<>> THEN Ok(Text, <<"\\end{displayquote}", NL, NL>>)
      ELSE IF starts_with(trimmed, <<">", " ">>) THEN
        Ok(Quote, simple_string_process(byte_suffix(trimmed, 2)) \o <<NL>>)
      ELSE IF starts_with(trimmed, <<">">>) THEN
        Ok(Quote, simple_string_process(byte_suffix(trimmed, 1)) \o <<NL>>)
      ELSE Ok(Quote, simple_string_process(trimmed) \o <<NL>>)

\* "```" as the characters of an input line.
FENCE == <<BACKTICK, BACKTICK, BACKTICK>>

\* Faulty variant of process_line_code: the line is trimmed before it is
\* compared with the closing fence.
process_line_code_trimmed(line) ==
  IF trim(line) = FENCE THEN Ok(Text, <<"\\end{lstlisting}", NL>>)
  ELSE Ok(Code, line \o <<NL>>)

process_line_code(line) ==
  IF line = FENCE THEN Ok(Text, <<"\\end{lstlisting}", NL>>)
  ELSE Ok(Code, line \o <<NL>>)

process_line_figure(line) ==
  IF trim(line) = <<>> THEN Ok(FigureCaption, <<NL, "\\caption{">>)
  ELSE Ok(Figure, line \o <<NL>>)

process_line_figure_caption(line) ==
  IF trim(line) = <<>> THEN Ok(Text, <<"}", NL, "\\end{figure}", NL, NL>>)
  ELSE Ok(FigureCaption,
          (IF starts_with(trim(line), LABEL_PREFIX) THEN line
           ELSE simple_string_process(line)) \o <<NL>>)

LINE_EVERY_ROW ==
  <<"l", "i", "n", "e", " ", "e", "v", "e", "r", "y", " ", "r", "o", "w">>
LINE_HEADER_ONLY ==
  <<"l", "i", "n", "e", " ", "h", "e", "a", "d", "e", "r", " ", "o", "n", "l", "y">>

\* Faulty variant of process_line_table_header: a line without marker
\* skips the body and opens the caption.
process_line_table_header_to_caption(line) ==
  LET trimmed == trim(line)
  IN  IF \/ starts_with(trimmed, <<"|", "-", "-", "-">>)
         \/ starts_with(trimmed, <<"|", " ", "-", "-", "-">>)
      THEN Ok(TableHeader, <<>>)
      ELSE IF contains(trimmed, LINE_EVERY_ROW) THEN Ok(TableBody(TRUE), <<>>)
      ELSE IF contains(trimmed, LINE_HEADER_ONLY)
           THEN Ok(TableBody(FALSE), <<"\\midrule", NL>>)
           ELSE Ok(TableCaption, <<>>)

process_line_table_header(line) ==
  LET trimmed == trim(line)
  IN  IF \/ starts_with(trimmed, <<"|", "-", "-", "-">>)
         \/ starts_with(trimmed, <<"|", " ", "-", "-", "-">>)
      THEN Ok(TableHeader, <<>>)
      ELSE IF contains(trimmed, LINE_EVERY_ROW) THEN Ok(TableBody(TRUE), <<>>)
      ELSE IF contains(trimmed, LINE_HEADER_ONLY)
           THEN Ok(TableBody(FALSE), <<"\\midrule", NL>>)
           ELSE Ok(TableBody(FALSE), <<>>)

\* trimmed[1..].split_terminator('|').map(str::trim).map(simple_string_process)
\*   .collect::<Vec<_>>().join(" & ")
table_row_cells(rest) ==
  LET cells == split_terminator(rest, "|")
  IN  join([i \in 1..Len(cells) |-> simple_string_process(trim(cells[i]))],
           <<" ", "&", " ">>)

\* The body handler without the flag: a row never gets its rule.
process_line_table_body_unruled(line, line_every_row) ==
  LET trimmed == trim(line)
  IN  IF trimmed = <<>>
      THEN Ok(TableCaption,
              <<"\\bottomrule", NL, "\\end{tabular}", NL, "\\caption{">>)
      ELSE IF ~is_char_boundary(trimmed, 1) THEN Panic(SliceBoundary)
      ELSE Ok(TableBody(line_every_row),
              table_row_cells(byte_suffix(trimmed, 1))
              \o <<" ", "\\", "\\", NL>>)

process_line_table_body(line, line_every_row) ==
  LET trimmed == trim(line)
      rule == IF line_every_row THEN <<"\\midrule", NL>> ELSE <<>>
  IN  IF trimmed = <<>>
      THEN Ok(TableCaption,
              <<"\\bottomrule", NL, "\\end{tabular}", NL, "\\caption{">>)
      ELSE IF ~is_char_boundary(trimmed, 1) THEN Panic(SliceBoundary)
      ELSE Ok(TableBody(line_every_row),
              rule \o table_row_cells(byte_suffix(trimmed, 1))
              \o <<" ", "\\", "\\", NL>>)

process_line_table_caption(line) ==
  IF line = <<>> THEN Ok(Text, <<"}", NL, "\\end{table}", NL, NL>>)
  ELSE Ok(TableCaption,
          (IF starts_with(trim(line), LABEL_PREFIX) THEN line
           ELSE simple_string_process(line)) \o <<NL>>)

process_literal(line) ==
  IF line = <<>> THEN Ok(Text, <<>>)
  ELSE Ok(Literal, line \o <<NL>>)

\* Faulty variant of process_footnote_body: the blank line ends the footnote
\* and the closing brace is not written.
process_footnote_body_unclosed(line) ==
  IF line = <<>> THEN Ok(Text, <<NL, NL>>)
  ELSE Ok(FootnoteBody, simple_string_process(line))

process_footnote_body(line) ==
  IF line = <<>> THEN Ok(Text, <<"}", NL, NL>>)
  ELSE Ok(FootnoteBody, simple_string_process(line))

DOLLARS == <<"$", "$">>

process_unnumbered_equation_text(line) ==
  IF line = DOLLARS THEN Ok(Text, <<"\\end{equation*}">>)
  ELSE Ok(UnnumberedEquation, line)

process_numbered_equation_text(line) ==
  IF line = DOLLARS THEN Ok(Text, <<"\\end{equation}">>)
  ELSE Ok(NumberedEquation, line)

(***************************************************************************)
(* The patterns of the Text handler.                                       *)
(***************************************************************************)
COMMENT_OPEN == <<"<", "!", "-", "-">>
COMMENT_CLOSE == <<"-", "-", ">">>

\* RE_LINK_TO_LOCAL  ^\[(?<label>.+)]\(\./(?<path>.+).md\)$
\* (the "." before "md" is unescaped: any character)
RE_LINK_TO_LOCAL(s) ==
  LET n == Len(s)
      mids == {k \in 3..n : occurs_at(s, <<"]", "(", ".", "/">>, k) /\ k + 4 <= n - 4}
  IN  IF /\ n >= 1 /\ s[1] = "["
         /\ occurs_at(s, <<"m", "d", ")">>, n - 2)
         /\ mids # {}
      THEN [matched |-> TRUE, path |-> SubSeq(s, MaxOf(mids) + 4, n - 4)]
      ELSE [matched |-> FALSE, path |-> <<>>]

\* RE_*_HEADER  ^<marker> (\[]\{#(?<label>.+)\})?(?<head>.*)$
\* `marker` is the run of "#" with its space; `label` is greedy: it runs to
\* the last "}" of the line.
RE_HEADER(s, marker) ==
  LET m == Len(marker)
      close == find_last_from(s, <<"}">>, m + 6)
  IN  IF ~starts_with(s, marker)
      THEN [matched |-> FALSE, has_label |-> FALSE, label |-> <<>>, head |-> <<>>]
      ELSE IF occurs_at(s, <<"[", "]", "{", "#">>, m + 1) /\ close # 0
      THEN [matched |-> TRUE, has_label |-> TRUE,
            label |-> SubSeq(s, m + 5, close - 1), head |-> Tail_from(s, close + 1)]
      ELSE [matched |-> TRUE, has_label |-> FALSE,
            label |-> <<>>, head |-> Tail_from(s, m + 1)]

RE_CHAPTER_HEADER(s) == RE_HEADER(s, <<"#", "#", " ">>)
RE_SECTION_HEADER(s) == RE_HEADER(s, <<"#", "#", "#", " ">>)
RE_SUBSECTION_HEADER(s) == RE_HEADER(s, <<"#", "#", "#", "#", " ">>)
RE_SUBSUBSECTION_HEADER(s) == RE_HEADER(s, <<"#", "#", "#", "#", "#", " ">>)

\* format!("\\<command>{{{}}}", head) + optional "\\label{..}" + '\n'
heading(command, cap) ==
  <<command>> \o cap.head \o <<"}">>
  \o (IF cap.has_label THEN <<"\\label{">> \o cap.label \o <<"}">> ELSE <<>>)
  \o <<NL>>

\* RE_TABLE_HEADER  (<!--(?<desc>.+)-->)?(?<label>.*)   unanchored: it always
\* matches at the start of the column; `desc` is greedy.
RE_TABLE_HEADER(s) ==
  LET close == find_last_from(s, COMMENT_CLOSE, 6)
  IN  IF starts_with(s, COMMENT_OPEN) /\ close # 0
      THEN [matched |-> TRUE, has_desc |-> TRUE,
            desc |-> SubSeq(s, 5, close - 1), label |-> Tail_from(s, close + 3)]
      ELSE [matched |-> TRUE, has_desc |-> FALSE, desc |-> <<>>, label |-> s]

\* RE_CODE_FLOAT  ```(?<lang>.+)<!--(?<label>.+)--><!--(?<caption>.+)-->
\* unanchored, every capture greedy.
RE_CODE_FLOAT(s) ==
  LET n == Len(s)
      BETWEEN == COMMENT_CLOSE \o COMMENT_OPEN
      ends(b) == {c \in (b + 8)..n : occurs_at(s, COMMENT_CLOSE, c)}
      seps(a) == {b \in (a + 5)..n : occurs_at(s, BETWEEN, b) /\ ends(b) # {}}
      opens(i) == {a \in (i + 4)..n : occurs_at(s, COMMENT_OPEN, a) /\ seps(a) # {}}
      starts == {i \in 1..n : occurs_at(s, FENCE, i) /\ opens(i) # {}}
  IN  IF starts = {}
      THEN [matched |-> FALSE, lang |-> <<>>, label |-> <<>>, caption |-> <<>>]
      ELSE LET i == MinOf(starts)
               a == MaxOf(opens(i))
               b == MaxOf(seps(a))
               c == MaxOf(ends(b))
           IN  [matched |-> TRUE,
                lang |-> SubSeq(s, i + 3, a - 1),
                label |-> SubSeq(s, a + 4, b - 1),
                caption |-> SubSeq(s, b + 7, c - 1)]

\* RE_CODE_HERE  ```(?<lang>.+)   unanchored: at least one character must
\* follow the three grave accents.
RE_CODE_HERE(s) ==
  LET starts == {i \in 1..Len(s) : occurs_at(s, FENCE, i) /\ i + 3 <= Len(s)}
  IN  IF starts = {} THEN [matched |-> FALSE, lang |-> <<>>]
      ELSE [matched |-> TRUE, lang |-> Tail_from(s, MinOf(starts) + 3)]

\* RE_FOOTNOTE_BODY  ^\[\^(?<mark>.+?)](?<body>.+?)$
RE_FOOTNOTE_BODY(s) ==
  LET closes == {j \in 4..(Len(s) - 1) : s[j] = "]"}
  IN  IF starts_with(s, <<"[", "^">>) /\ closes # {}
      THEN [matched |-> TRUE, mark |-> SubSeq(s, 3, MinOf(closes) - 1),
            body |-> Tail_from(s, MinOf(closes) + 1)]
      ELSE [matched |-> FALSE, mark |-> <<>>, body |-> <<>>]

\* RE_NUM_EQUATION  ^\$\$<!--(?<label>.+)-->$
RE_NUM_EQUATION(s) ==
  IF /\ starts_with(s, DOLLARS \o COMMENT_OPEN)
     /\ ends_with(s, COMMENT_CLOSE)
     /\ Len(s) >= 10
  THEN [matched |-> TRUE, label |-> SubSeq(s, 7, Len(s) - 3)]
  ELSE [matched |-> FALSE, label |-> <<>>]

\* RE_LINE_COMMENT  ^<!--(.*)-->$
RE_LINE_COMMENT(s) ==
  starts_with(s, COMMENT_OPEN) /\ ends_with(s, COMMENT_CLOSE) /\ Len(s) >= 7

(***************************************************************************)
(* process_line_text (lines 445-623)                                       *)
(***************************************************************************)
\* The table-open branch (lines 491-540).
table_open(line, trimmed) ==
  IF ~ends_with(trimmed, <<"|">>) THEN Err(TableLineEnding)
  ELSE
    LET cols == split_terminator(byte_suffix(trimmed, 1), "|")
        column_re_captures == [i \in 1..Len(cols) |-> RE_TABLE_HEADER(trim(cols[i]))]
        desc(cap) == IF cap.has_desc THEN trim(cap.desc) ELSE <<"c">>
        label(cap) == <<"\\textbf{">> \o trim(cap.label) \o <<"}">>
    IN  IF \E i \in 1..Len(cols) : ~column_re_captures[i].matched
        THEN Err(TableHeadings)
        ELSE Ok(TableHeader,
                <<"\\begin{table}", NL, "\\begin{tabular}{">>
                \o join([i \in 1..Len(cols) |-> desc(column_re_captures[i])], <<" ">>)
                \o <<"}", NL, "\\toprule", NL>>
                \o join([i \in 1..Len(cols) |-> label(column_re_captures[i])],
                        <<" ", "&", " ">>)
                \o <<" ", "\\", "\\", NL>>)

\* The code-fence-with-caption branch (lines 541-551).
code_float(cap) ==
  LET lang == trim(cap.lang)
  IN  Ok(Code,
         <<"\\begin{lstlisting}", "[", NL, "\tstyle=">> \o lang
         \o <<",", NL, "\tlanguage=">> \o lang
         \o <<",", NL, "\tlabel=">> \o trim(cap.label)
         \o <<",", NL, "\tcaption={">> \o trim(cap.caption)
         \o <<"},", NL, "\tfloat]", NL>>)

\* The bare code-fence branch (lines 552-559).
code_here(cap) ==
  LET lang == trim(cap.lang)
  IN  Ok(Code,
         <<"\\begin{lstlisting}">>
         \o (IF lang # <<>>
             THEN <<"[style=">> \o lang \o <<",language=">> \o lang \o <<"]">>
             ELSE <<>>)
         \o <<NL>>)

\* The quote-start branch (lines 560-568): the slice is taken of `line`, not
\* of `trimmed`.
quote_start(line) ==
  IF ~is_char_boundary(line, 2) THEN Panic(SliceBoundary)
  ELSE Ok(Quote,
          <<"\\begin{displayquote}", NL>>
          \o simple_string_process(byte_suffix(line, 2)) \o <<NL>>)

\* The list-start branches (lines 569-600).
\* Faulty variant of list_start: the stack starts at 0 whatever the
\* indentation of the opening line.
list_start_at_zero(line, cap, begin, tag) ==
  LET list == <<begin, NL, "\\item ">> \o simple_string_process(cap.item) \o <<NL>>
      indent == leading_whitespace(line)
  IN  IF indent_too_large(indent) THEN Err(IndentOverflow)
      ELSE Ok(MkState(tag, <<0>>, FALSE), list)

list_start(line, cap, begin, tag) ==
  LET list == <<begin, NL, "\\item ">> \o simple_string_process(cap.item) \o <<NL>>
      indent == leading_whitespace(line)
  IN  IF indent_too_large(indent) THEN Err(IndentOverflow)
      ELSE Ok(MkState(tag, <<as_u8(indent)>>, FALSE), list)

process_line_text(line) ==
  LET trimmed == trim(line)
  IN  IF trimmed = <<>> THEN Ok(Text, <<NL>>)
      ELSE IF starts_with(trimmed, <<"#", " ">>) THEN Ok(Text, <<>>)
      ELSE IF RE_LINK_TO_LOCAL(trimmed).matched THEN
        Ok(Text, <<"\\input{">> \o RE_LINK_TO_LOCAL(trimmed).path \o <<"}", NL>>)
      ELSE IF RE_SUBSUBSECTION_HEADER(trimmed).matched THEN
        Ok(Text, heading("\\subsubsection{", RE_SUBSUBSECTION_HEADER(trimmed)))
      ELSE IF RE_SUBSECTION_HEADER(trimmed).matched THEN
        Ok(Text, heading("\\subsection{", RE_SUBSECTION_HEADER(trimmed)))
      ELSE IF RE_SECTION_HEADER(trimmed).matched THEN
        Ok(Text, heading("\\section{", RE_SECTION_HEADER(trimmed)))
      ELSE IF RE_CHAPTER_HEADER(trimmed).matched THEN
        Ok(Text, heading("\\chapter{", RE_CHAPTER_HEADER(trimmed)))
      ELSE IF trimmed = <<"|", "f", "i", "g", "u", "r", "e">> THEN
        Ok(Figure, <<"\\begin{figure}", NL>>)
      ELSE IF trimmed = <<"|", "l", "i", "t", "e", "r", "a", "l">> THEN
        Ok(Literal, <<>>)
      ELSE IF starts_with(trimmed, <<"|">>) THEN table_open(line, trimmed)
      ELSE IF RE_CODE_FLOAT(trimmed).matched THEN code_float(RE_CODE_FLOAT(trimmed))
      ELSE IF RE_CODE_HERE(trimmed).matched THEN code_here(RE_CODE_HERE(trimmed))
      ELSE IF starts_with(trimmed, <<">", " ">>) THEN quote_start(line)
      ELSE IF RE_START_ITEMIZE(trimmed).matched THEN
        list_start(line, RE_START_ITEMIZE(trimmed), "\\begin{itemize}", "Unordered")
      ELSE IF RE_START_ENUMERATE(trimmed).matched THEN
        list_start(line, RE_START_ENUMERATE(trimmed), "\\begin{enumerate}", "Ordered")
      ELSE IF RE_FOOTNOTE_BODY(trimmed).matched THEN
        Ok(FootnoteBody,
           <<"\\footnotetext[">> \o RE_FOOTNOTE_BODY(trimmed).mark \o <<"]{", NL>>
           \o simple_string_process(RE_FOOTNOTE_BODY(trimmed).body) \o <<NL>>)
      ELSE IF trimmed = DOLLARS THEN
        Ok(UnnumberedEquation, <<"\\begin{equation*}", NL>>)
      ELSE IF RE_NUM_EQUATION(trimmed).matched THEN
        Ok(NumberedEquation,
           <<"\\begin{equation}\\label{">> \o RE_NUM_EQUATION(trimmed).label
           \o <<"}", NL>>)
      ELSE IF RE_LINE_COMMENT(trimmed) THEN Ok(Text, <<>>)
      ELSE Ok(Text, simple_string_process(line) \o <<NL>>)

(***************************************************************************)
(* State::process_line (lines 89-106): the dispatch on the current State.  *)
(***************************************************************************)
process_line(st, line) ==
  CASE st.tag = "Ordered" -> process_line_ordered(line, st.indents)
    [] st.tag = "Unordered" -> process_line_unordered(line, st.indents)
    [] st.tag = "Quote" -> process_line_quote(line)
    [] st.tag = "Code" -> process_line_code(line)
    [] st.tag = "Figure" -> process_line_figure(line)
    [] st.tag = "FigureCaption" -> process_line_figure_caption(line)
    [] st.tag = "TableHeader" -> process_line_table_header(line)
    [] st.tag = "TableBody" -> process_line_table_body(line, st.line_every_row)
    [] st.tag = "TableCaption" -> process_line_table_caption(line)
    [] st.tag = "Literal" -> process_literal(line)
    [] st.tag = "FootnoteBody" -> process_footnote_body(line)
    [] st.tag = "Text" -> process_line_text(line)
    [] st.tag = "UnnumberedEquation" -> process_unnumbered_equation_text(line)
    [] st.tag = "NumberedEquation" -> process_numbered_equation_text(line)

(***************************************************************************)
(* The input.  io::Lines yields, per line of the file, Ok(line) or an      *)
(* Err(io::Error).  A run reads a document of one family (`corpus`); the   *)
(* family fixes the lines the source may yield.                            *)
(***************************************************************************)
OkLine(line) == [ok |-> TRUE, line |-> line]
IoErr == [ok |-> FALSE, line |-> <<>>]

\* n spaces followed by s.
indented(n, s) == [i \in 1..n |-> " "] \o s

EnumItem == <<"1", ".", " ", "a">>
BulletItem == <<"-", " ", "b">>
Blank == <<>>

TableOpenLine ==
  <<"|", " ", "<", "!", "-", "-", "c", "-", "-", ">", " ", "A", " ",
    "|", " ", "<", "!", "-", "-", "l", "-", "-", ">", " ", "B", " ", "|">>
SeparatorLine == <<"|", "-", "-", "-">>
RowLine == <<"|", " ", "x", " ", "|", " ", "y", " ", "|">>
RowNoEndLine == <<"|", " ", "x", " ", "|", " ", "y">>
QuoteLine == <<">", " ", "q">>

\* The inline constructs, as the characters of an input line.
Comment(body) == COMMENT_OPEN \o body \o COMMENT_CLOSE
Delimited(d, body) == <<d>> \o body \o <<d>>
Link(text, url) == <<"[">> \o text \o <<"]", "(">> \o url \o <<")">>
FootnoteRef(mark) == <<"[", "^">> \o mark \o <<"]">>

InlineKinds ==
  {"comment", "superscript", "bold", "monospace", "single quote",
   "double quote", "emphasis", "link", "footnote reference"}

\* One instance of an inline construct around `body`.
Instance(kind, body) ==
  CASE kind = "comment" -> Comment(body)
    [] kind = "superscript" -> Delimited("^", body)
    [] kind = "bold" -> Delimited("*", body)
    [] kind = "monospace" -> Delimited(BACKTICK, body)
    [] kind = "single quote" -> Delimited("'", body)
    [] kind = "double quote" -> Delimited("\"", body)
    [] kind = "emphasis" -> Delimited("_", body)
    [] kind = "link" -> Link(body, <<"u">>)
    [] kind = "footnote reference" -> FootnoteRef(body)

\* A prose line holding two instances of a construct, plain text between.
TwoInstances(kind) ==
  <<"t", " ">> \o Instance(kind, <<"a">>) \o <<" ", "x", " ">>
  \o Instance(kind, <<"b">>)

\* Prose lines on which the order of the substitutions shows.
BoldAndMono == <<"*", "b", "*", " ", BACKTICK, "m", BACKTICK>>
TwoSingleQuotes == <<"t", " ", "'", "a", "'", " ", "'", "b", "'">>
TwoDoubleQuotes == <<"t", " ", "\"", "a", "\"", " ", "\"", "b", "\"">>
CaretInComment == <<"t", "^", "a">> \o Comment(<<"^">>) \o <<"b", "^">>
MarkupInLink == <<"t", " ">> \o Link(<<"*", "a", "*">>, <<"u", "_", "v", "_">>)
AmpersandInQuote == <<"t", " ", "'", "a", "&", "b", "'">>

\* Plain text around a comment, and the text of a comment.
Prefixes == {<<>>, <<" ">>, <<"a", " ">>}
Postfixes == {<<>>, <<"\t">>, <<" ", "b">>}
CommentBodies == {<<" ", "c", " ">>, <<"&", "^">>}
CommentLines ==
  {p \o Comment(c) \o q : p \in Prefixes, c \in CommentBodies, q \in Postfixes}

\* A footnote definition: it opens FootnoteBody, whose handler gives the
\* whole line to the Inline Transformer.
FootnoteDefLine == <<"[", "^", "1", "]", "n">>

\* Prose with one, two and three footnote-reference marks.
OneMark == <<"t">> \o FootnoteRef(<<"1">>) \o <<" ", "u">>
TwoMarks == <<"t">> \o FootnoteRef(<<"1">>) \o <<" ", "u">> \o FootnoteRef(<<"2">>)
ThreeMarks == TwoMarks \o <<" ", "v">> \o FootnoteRef(<<"3">>)
LongMark == <<"t">> \o FootnoteRef(<<"a", "s", "d", "f">>) \o <<".">>

\* Heading lines:  <marker> <text>  and  <marker> []{#id}<text>.
HeadingMarkers ==
  {<<"#", "#">>, <<"#", "#", "#">>, <<"#", "#", "#", "#">>,
   <<"#", "#", "#", "#", "#">>}
HeadingTexts == {<<"h">>, <<"*", "h", "*">>, <<"h", "{", "}">>}
HeadingId == <<"i", "d">>
HeadingLine(marker, text) == marker \o <<" ">> \o text
LabelledHeadingLine(marker, id, text) ==
  marker \o <<" ", "[", "]", "{", "#">> \o id \o <<"}">> \o text

\* Code-fence lines: the fence alone, and the fence with a language.
TaggedFence == FENCE \o <<"r", "s">>

\* Lines that open, fill and end the blocks.
FootnoteDefMarkup == <<"[", "^", "2", "]", "*", "n", "*">>
FigureOpenLine == <<"|", "f", "i", "g", "u", "r", "e">>
LiteralOpenLine == <<"|", "l", "i", "t", "e", "r", "a", "l">>
NumberedEquationLine == DOLLARS \o Comment(<<"e">>)
WhitespaceLine == <<" ">>

\* Lines that are structural markers in Text (a heading, list items, a table
\* row, a quote, "$$", blank lines, inline markup, fence lines that are not
\* the exact closing fence).
ChapterLine == HeadingLine(<<"#", "#">>, <<"h">>)
StructuralMarkers ==
  {ChapterLine, EnumItem, BulletItem, RowLine, QuoteLine, DOLLARS, Blank,
   WhitespaceLine, BoldAndMono, <<" ">> \o FENCE, TaggedFence}

\* Table-open lines: one column without a descriptor; a column with no
\* contents between two others; no closing "|"; a descriptor left open.
PlainHeaderLine == <<"|", " ", "A", " ", "|">>
EmptyColumnLine == <<"|", " ", "A", " ", "|", " ", "|", " ", "B", " ", "|">>
NoEndHeaderLine == <<"|", " ", "A">>
OpenDescriptorLine == <<"|", " ", "<", "!", "-", "-", "c", " ", "A", " ", "|">>

\* The lines after a table header: the second form of the separator, and
\* the lines that carry a rule policy.
SpacedSeparatorLine == <<"|", " ", "-", "-", "-">>
EveryRowLine == LINE_EVERY_ROW
HeaderOnlyLine == LINE_HEADER_ONLY

\* An indented line of prose with inline markup.
MarkupContinuation == <<" ", " ", "*", "c", "*">>

Corpora == {"ordered", "unordered", "nesting", "table", "quote", "errors"}

\* The families of single lines.
LineCorpora ==
  {"order", "adjacent", "comments", "marks", "headings", "fences",
   "code body", "figure body", "table heads", "deep indent"}

\* The families of block constructs.
BlockCorpora ==
  {"footnote", "quoting", "figure", "tablecaption", "verbatim", "equations",
   "closing", "closing enumerate", "table rules", "continuation",
   "nested"}

Source(c) ==
  CASE c = "ordered" ->
         {OkLine(indented(n, EnumItem)) : n \in 0..4}
    [] c = "unordered" ->
         {OkLine(indented(n, BulletItem)) : n \in 0..4}
    [] c = "nesting" ->
         {OkLine(EnumItem), OkLine(indented(2, EnumItem)),
          OkLine(indented(1, BulletItem)), OkLine(Blank), OkLine(<<" ">>)}
    [] c = "table" ->
         {OkLine(TableOpenLine), OkLine(SeparatorLine), OkLine(RowLine),
          OkLine(RowNoEndLine), OkLine(Blank), OkLine(<<"U+00E9">>)}
    [] c = "quote" ->
         {OkLine(QuoteLine), OkLine(<<" ", " ">> \o QuoteLine),
          OkLine(<<"U+3000">> \o QuoteLine), OkLine(<<"q", "&", "q">>),
          OkLine(Blank)}
    [] c = "errors" ->
         {IoErr, OkLine(indented(2, EnumItem)), OkLine(EnumItem),
          OkLine(<<"|", " ", "A">>), OkLine(<<"x">>), OkLine(Blank)}
    [] c = "order" ->
         {OkLine(BoldAndMono), OkLine(TwoSingleQuotes), OkLine(TwoDoubleQuotes),
          OkLine(CaretInComment), OkLine(MarkupInLink), OkLine(AmpersandInQuote)}
    [] c = "adjacent" ->
         {OkLine(TwoInstances(kind)) : kind \in InlineKinds}
    [] c = "comments" ->
         {OkLine(l) : l \in CommentLines} \cup {OkLine(FootnoteDefLine)}
    [] c = "marks" ->
         {OkLine(OneMark), OkLine(TwoMarks), OkLine(ThreeMarks), OkLine(LongMark)}
    [] c = "headings" ->
         {OkLine(HeadingLine(m, t)) : m \in HeadingMarkers, t \in HeadingTexts}
         \cup {OkLine(LabelledHeadingLine(m, HeadingId, t)) :
                 m \in HeadingMarkers, t \in HeadingTexts}
    [] c = "fences" ->
         {OkLine(FENCE), OkLine(TaggedFence), OkLine(<<" ">> \o TaggedFence),
          OkLine(<<"c">>)}
    [] c = "footnote" ->
         {OkLine(FootnoteDefLine), OkLine(FootnoteDefMarkup), OkLine(<<"m">>),
          OkLine(Blank), OkLine(WhitespaceLine)}
    [] c = "quoting" ->
         {OkLine(QuoteLine), OkLine(<<"q">>), OkLine(Blank), OkLine(WhitespaceLine)}
    [] c = "figure" ->
         {OkLine(FigureOpenLine), OkLine(<<"c">>), OkLine(Blank),
          OkLine(WhitespaceLine)}
    [] c = "tablecaption" ->
         {OkLine(TableOpenLine), OkLine(RowLine), OkLine(Blank),
          OkLine(WhitespaceLine)}
    [] c = "verbatim" ->
         {OkLine(LiteralOpenLine), OkLine(TaggedFence), OkLine(FENCE),
          OkLine(Blank), OkLine(WhitespaceLine)}
    [] c = "equations" ->
         {OkLine(DOLLARS), OkLine(NumberedEquationLine),
          OkLine(<<" ">> \o DOLLARS), OkLine(Blank), OkLine(<<"e">>)}
    [] c = "closing" ->
         {OkLine(indented(n, BulletItem)) : n \in 0..3} \cup {OkLine(Blank)}
    [] c = "closing enumerate" ->
         {OkLine(EnumItem), OkLine(indented(2, EnumItem)),
          OkLine(indented(3, EnumItem)), OkLine(WhitespaceLine)}
    [] c = "code body" ->
         {OkLine(l) : l \in StructuralMarkers \cup {FENCE}}
    [] c = "figure body" ->
         {OkLine(l) : l \in StructuralMarkers \cup {FigureOpenLine}}
    [] c = "table heads" ->
         {OkLine(TableOpenLine), OkLine(PlainHeaderLine), OkLine(EmptyColumnLine),
          OkLine(NoEndHeaderLine), OkLine(OpenDescriptorLine), OkLine(<<"|">>)}
    [] c = "deep indent" ->
         {OkLine(indented(n, BulletItem)) : n \in {0, U8_MAX, U8_MAX + 1}}
         \cup {OkLine(indented(n, EnumItem)) : n \in {0, U8_MAX, U8_MAX + 1}}
    [] c = "table rules" ->
         {OkLine(TableOpenLine), OkLine(SeparatorLine), OkLine(SpacedSeparatorLine),
          OkLine(EveryRowLine), OkLine(HeaderOnlyLine), OkLine(RowLine),
          OkLine(Blank)}
    [] c = "nested" ->
         {OkLine(BulletItem), OkLine(QuoteLine), OkLine(FigureOpenLine),
          OkLine(TableOpenLine), OkLine(DOLLARS), OkLine(TaggedFence),
          OkLine(Blank)}
    [] c = "continuation" ->
         {OkLine(EnumItem), OkLine(BulletItem), OkLine(indented(2, EnumItem)),
          OkLine(MarkupContinuation), OkLine(Blank)}

\* The number of lines of the longest document of a family.
InputLines(c) == IF c \in LineCorpora THEN MaxShortLines ELSE MaxLines

(***************************************************************************)
(* convert (lines 46-63): lines.map(closure).filter(is_some).map(unwrap)   *)
(***************************************************************************)
\* Faulty variant of closure_outcome: the captured state is overwritten
\* with the State of the failed Result as well.
closure_outcome_overwrites(st, res) ==
  [state |-> res.state,
   some |-> res.kind = "Ok",
   item |-> res.frag,
   stderr |-> IF res.kind = "Ok" THEN <<>> ELSE <<res.err>>,
   panicked |-> res.kind = "Panic"]

\* Faulty variant of closure_outcome: `state = new_state` is forgotten.
closure_outcome_forgets(st, res) ==
  [state |-> st,
   some |-> res.kind = "Ok",
   item |-> res.frag,
   stderr |-> IF res.kind = "Ok" THEN <<>> ELSE <<res.err>>,
   panicked |-> res.kind = "Panic"]

\* The closure given to map (lines 50-60), called on one item of the source
\* with the captured `state`: the state it leaves, the Option it returns
\* (`some`, `item`), what reaches stderr (the eprintln! of inspect_err, or the
\* message of a panic), and whether the call panicked.
closure_outcome(st, res) ==
  [state |-> IF res.kind = "Ok" THEN res.state ELSE st,
   some |-> res.kind = "Ok",
   item |-> res.frag,
   stderr |-> IF res.kind = "Ok" THEN <<>> ELSE <<res.err>>,
   panicked |-> res.kind = "Panic"]

map_closure(st, res_line) ==
  closure_outcome(st, IF res_line.ok THEN process_line(st, res_line.line)
                      ELSE Err(IoFailure))

\* Faulty variant of may_pull: the chain runs ahead of the caller's requests.
may_pull_eager == pc \in {"idle", "pulling"}

\* The adaptors are lazy: the source is read only inside a call of next().
may_pull == pc = "pulling"

\* Faulty variant of on_exhausted: an open quote is closed at end of input.
on_exhausted_flushes(st, o) ==
  IF st = Quote THEN Append(o, <<"\\end{displayquote}", NL, NL>>) ELSE o

\* What the iterator yields when the source is exhausted: nothing; next()
\* returns None (no adaptor of the chain holds an item back).
on_exhausted(st, o) == o

Init ==
  /\ state = Text
  /\ pc = "idle"
  /\ out = <<>>
  /\ consumed = <<>>
  /\ errs = <<>>
  /\ corpus \in Corpora

\* The caller asks for the next fragment: Iterator::next on the chain.
Request ==
  /\ pc = "idle"
  /\ pc' = "pulling"
  /\ UNCHANGED <<state, out, consumed, errs, corpus>>

\* filter's loop takes one item of the source through the closure: a
\* fragment is yielded to the caller (Some), or the line is dropped (None)
\* and the loop goes on, or the handler panics and the process aborts.
PullLine ==
  /\ may_pull
  /\ Len(consumed) < InputLines(corpus)
  /\ \E res_line \in Source(corpus) :
       \E r \in {map_closure(state, res_line)} :
           /\ consumed' = Append(consumed, res_line)
           /\ state' = r.state
           /\ errs' = errs \o r.stderr
           /\ out' = IF r.some THEN Append(out, r.item) ELSE out
           /\ pc' = IF r.panicked THEN "aborted"
                    ELSE IF r.some THEN "idle" ELSE "pulling"
  /\ UNCHANGED corpus

\* The source is exhausted: next() returns None and the run ends.
EndOfInput ==
  /\ may_pull
  /\ pc' = "done"
  /\ out' = on_exhausted(state, out)
  /\ UNCHANGED <<state, consumed, errs, corpus>>

\* The caller stops pulling and drops the iterator.
StopPulling ==
  /\ pc = "idle"
  /\ pc' = "stopped"
  /\ UNCHANGED <<state, out, consumed, errs, corpus>>

Next == Request \/ PullLine \/ EndOfInput \/ StopPulling

Spec == Init /\ [][Next]_vars

\* The runs over the families of single lines.
InitLines ==
  /\ state = Text
  /\ pc = "idle"
  /\ out = <<>>
  /\ consumed = <<>>
  /\ errs = <<>>
  /\ corpus \in LineCorpora

SpecLines == InitLines /\ [][Next]_vars

\* The runs over the families of block constructs.
InitBlocks ==
  /\ state = Text
  /\ pc = "idle"
  /\ out = <<>>
  /\ consumed = <<>>
  /\ errs = <<>>
  /\ corpus \in BlockCorpora

SpecBlocks == InitBlocks /\ [][Next]_vars

(***************************************************************************)
(* Properties.                                                             *)
(***************************************************************************)
\* The item of the source taken by this step, when the step takes one.
Pulled == consumed' # consumed
PulledItem == consumed'[Len(consumed')]

\* The handler's result for the item this step takes, in the State held
\* before the step.
handler_fails(st, item) ==
  \/ ~item.ok
  \/ process_line(st, item.line).kind = "Err"

\* The conversion as a fold over the items read so far: the State and the
\* fragments that result from calling the handlers in input order, a failed
\* item leaving both as they were.
fold_step(prev, res) ==
  IF res.kind = "Ok"
  THEN [state |-> res.state, out |-> Append(prev.out, res.frag)]
  ELSE prev

fold_item(prev, item) ==
  fold_step(prev, IF item.ok THEN process_line(prev.state, item.line)
                  ELSE Err(IoFailure))

RECURSIVE Run(_)
Run(items) ==
  IF items = <<>> THEN [state |-> Text, out |-> <<>>]
  ELSE fold_item(Run(SubSeq(items, 1, Len(items) - 1)), items[Len(items)])

\* C1: Driver error recovery.  Whenever the handler of the held Mode fails on
\* the line the Driver takes (or the line source yields an I/O failure), no
\* fragment is yielded, the held Mode (indentation stack included) is what
\* it was, one error is reported, and the Driver stays in its loop, ready
\* to take the next line: a failure never ends the run.
C1_ErrorRecovery ==
  [][(Pulled /\ handler_fails(state, PulledItem))
       => /\ out' = out
          /\ state' = state
          /\ Len(errs') = Len(errs) + 1
          /\ pc' = "pulling"]_vars

\* A list at indentation 2 is open, a dedent below its base level has failed,
\* and the following item line has been converted in the unchanged Mode.
C1_Witness ==
  /\ corpus = "errors"
  /\ errs = <<NestingUnderflow>>
  /\ state = Ordered(<<2>>)
  /\ Len(consumed) = 3
  /\ Len(out) = 2

\* C2: Driver ordering.  Starting from Text, the output is exactly the
\* fragments of the successful handler calls in input order (empty fragments
\* included), each handler having been called with the Mode left by the
\* line before it, and every line read has been either yielded or dropped
\* (and reported) before the next is read.
C2_Ordering ==
  /\ \E r \in {Run(consumed)} : state = r.state /\ out = r.out
  /\ Len(out) + Len(errs) = Len(consumed)

\* A malformed table-open line has been dropped, then a table opened, its
\* separator skipped with an empty fragment, a row and the blank line read.
C2_Witness ==
  /\ corpus = "table"
  /\ Len(consumed) = 5
  /\ Len(errs) = 1
  /\ Len(out) = 4
  /\ out[2] = <<>>
  /\ state = TableCaption

\* C3: in TableBody mode a non-blank row that starts with the row marker
\* "|" and does not end with it is rejected: no fragment, an error reported,
\* the Mode still TableBody with the same rule-every-row flag.
C3_MalformedRowRejected ==
  [][(/\ state.tag = "TableBody"
      /\ Pulled
      /\ PulledItem.ok
      /\ starts_with(trim(PulledItem.line), <<"|">>)
      /\ ~ends_with(trim(PulledItem.line), <<"|">>))
       => /\ out' = out
          /\ state' = state
          /\ Len(errs') = Len(errs) + 1]_vars

\* x occurs in s before y, and y before z.
in_order(s, x, y, z) ==
  \E i, j, k \in 1..Len(s) : i < j /\ j < k /\ s[i] = x /\ s[j] = y /\ s[k] = z

\* The four lines of the table of C4 and nothing else have been read.
TableOfFourLines ==
  consumed = <<OkLine(TableOpenLine), OkLine(SeparatorLine),
               OkLine(RowLine), OkLine(Blank)>>

\* C4: from Text, the lines  "| <!--c--> A | <!--l--> B |", "|---",
\* "| x | y |" and a blank line produce, in order, a tabular opening with
\* column spec "c l" and the header row A & B, then the body row x & y, then
\* the caption opening, and leave the Mode TableCaption; the body row is
\* emitted, not consumed silently.
C4_TableOfFourLines ==
  TableOfFourLines =>
    /\ state = TableCaption
    /\ \E opening, row, caption \in 1..Len(out) :
         /\ opening < row /\ row < caption
         /\ contains(out[opening], <<"\\begin{tabular}{", "c", " ", "l", "}">>)
         /\ in_order(out[opening], "A", "&", "B")
         /\ in_order(out[row], "x", "&", "y")
         /\ contains(out[caption], <<"\\caption{">>)

InList(st) == st.tag \in {"Ordered", "Unordered"}

\* C5: whenever the Mode is Ordered or Unordered its indentation stack is
\* non-empty and holds at most INDENTS_CAPACITY (4) entries, and the abort
\* on an empty indents vec has never happened.
C5_StackBounds ==
  /\ InList(state) =>
       /\ Len(state.indents) >= 1
       /\ Len(state.indents) <= INDENTS_CAPACITY
  /\ \A i \in 1..Len(errs) : errs[i] # EmptyIndents

\* A list is nested to the cap, and a push beyond it has been refused.
C5_Witness ==
  /\ state.tag = "Unordered"
  /\ Len(state.indents) = INDENTS_CAPACITY
  /\ errs = <<NestingOverflow>>

\* The environment a list Mode opens and closes ("none" outside a list).
BeginOf(st) ==
  CASE st.tag = "Ordered" -> "\\begin{enumerate}"
    [] st.tag = "Unordered" -> "\\begin{itemize}"
    [] OTHER -> "none"
EndOf(st) ==
  CASE st.tag = "Ordered" -> "\\end{enumerate}"
    [] st.tag = "Unordered" -> "\\end{itemize}"
    [] OTHER -> "none"

ListBegins(s) == count_of(s, "\\begin{enumerate}") + count_of(s, "\\begin{itemize}")
ListEnds(s) == count_of(s, "\\end{enumerate}") + count_of(s, "\\end{itemize}")

\* The number of leading entries two stacks share.
CommonPrefix(a, b) ==
  LET same == {n \in 0..Len(a) : n <= Len(b) /\ SubSeq(a, 1, n) = SubSeq(b, 1, n)}
  IN  MaxOf(same)

\* Begins minus ends emitted so far equals the depth of the open list (0
\* outside a list), and an open list has a non-empty stack.
C6_Balanced ==
  /\ \E all \in {concat(out)} :
       ListBegins(all) - ListEnds(all) = Len(state.indents)
  /\ InList(state) => Len(state.indents) >= 1

\* A fragment closes each level left and opens each level entered exactly
\* once, with the environment of the list at hand.
C6_Step ==
  out' # out =>
    \E f \in {out'[Len(out')]} :
      \E cp \in {CommonPrefix(state.indents, state'.indents)} :
        /\ ListEnds(f) = Len(state.indents) - cp
        /\ ListBegins(f) = Len(state'.indents) - cp
        /\ count_of(f, EndOf(state)) = ListEnds(f)
        /\ count_of(f, BeginOf(state')) = ListBegins(f)

\* C6: for every sequence of list-item lines (in particular indentations that
\* rise and then fall, as 0,0,2,2,0) each level entered emits exactly one
\* \begin{..}, each level left exactly one matching \end{..}, at every step
\* begins minus ends equals the length of the indentation stack, and the
\* stack is never empty in a list Mode.
C6_ListBalance == [][C6_Step /\ C6_Balanced']_vars

\* The items at indentations 0,0,2,2,0 have been read: two levels entered,
\* one left.
C6_Witness ==
  /\ consumed = <<OkLine(EnumItem), OkLine(EnumItem),
                  OkLine(indented(2, EnumItem)), OkLine(indented(2, EnumItem)),
                  OkLine(EnumItem)>>
  /\ state = Ordered(<<0>>)
  /\ ListBegins(concat(out)) = 2
  /\ ListEnds(concat(out)) = 1

\* The line is an item line of the list Mode st, indented deeper than the
\* innermost open level.
DeeperItem(st, line) ==
  /\ InList(st)
  /\ IF st.tag = "Ordered" THEN RE_START_ENUMERATE(trim(line)).matched
     ELSE RE_START_ITEMIZE(trim(line)).matched
  /\ leading_whitespace(line) > st.indents[Len(st.indents)]

\* C7: in a list Mode, an item line indented deeper than the top of the
\* stack fails with the nesting-overflow error when the stack holds 4
\* entries (no fragment, Mode and stack unchanged, earlier fragments
\* intact); with fewer entries it succeeds, pushes its indentation and emits
\* one \begin{..} followed by one \item.
C7_NestingOverflow ==
  [][(Pulled /\ PulledItem.ok /\ DeeperItem(state, PulledItem.line))
       => IF Len(state.indents) = 4
          THEN /\ out' = out
               /\ state' = state
               /\ errs' = Append(errs, NestingOverflow)
          ELSE /\ state' = MkState(state.tag,
                                   Append(state.indents,
                                          leading_whitespace(PulledItem.line)),
                                   FALSE)
               /\ errs' = errs
               /\ SubSeq(out', 1, Len(out)) = out
               /\ Len(out') = Len(out) + 1
               /\ \E f \in {out'[Len(out')]} :
                    /\ SubSeq(f, 1, 3) = <<BeginOf(state), NL, "\\item ">>
                    /\ ListBegins(f) = 1
                    /\ ListEnds(f) = 0
                    /\ count_of(f, "\\item ") = 1]_vars

\* Four levels are open, the fifth has been refused, the four fragments of
\* the earlier lines are in the output.
C7_Witness ==
  /\ corpus = "ordered"
  /\ state = Ordered(<<0, 1, 2, 3>>)
  /\ errs = <<NestingOverflow>>
  /\ Len(out) = 4
  /\ Len(consumed) = 5

\* C8: no handler aborts: whatever the Mode and the line, the call returns
\* a (next Mode, fragment) pair or a typed failure.
C8_NoAbort == pc # "aborted"

\* C9: the Driver is lazy and pull-driven.  A line is read (and a handler
\* called) only inside a request of the caller, one line per step; a request
\* ends with the first line processed successfully, its fragment yielded;
\* between requests nothing is read, changed or emitted; and once the caller
\* has stopped pulling (or the input is exhausted) nothing happens any more:
\* no line is consumed, the Mode is not changed, no closing markup appears.
C9_Lazy ==
  [][/\ Pulled => (pc = "pulling" /\ Len(consumed') = Len(consumed) + 1)
     /\ out' # out => (Pulled /\ pc' = "idle" /\ Len(out') = Len(out) + 1)
     /\ state' # state => out' # out
     /\ pc = "idle" => (pc' \in {"pulling", "stopped"}
                        /\ UNCHANGED <<state, out, consumed, errs>>)
     /\ pc \in {"stopped", "done"} => UNCHANGED vars]_vars

\* The caller has stopped pulling inside an open quote: one line was read
\* for the one fragment requested.
C9_Witness ==
  /\ pc = "stopped"
  /\ state = Quote
  /\ Len(consumed) = 1
  /\ Len(out) = 1

QuoteBegins(s) == count_of(s, "\\begin{displayquote}")
QuoteEnds(s) == count_of(s, "\\end{displayquote}")

\* C10: no flush at end of input.  The fragments never outnumber the lines
\* read; when the input is exhausted the output is exactly the fragments of
\* the lines, whatever the Mode, so that a quote left open at the end has
\* its opening markup in the output and not its closing markup.
C10_NoFlush ==
  /\ Len(out) <= Len(consumed)
  /\ pc = "done" =>
       /\ \E r \in {Run(consumed)} : out = r.out /\ state = r.state
       /\ state = Quote =>
            \E all \in {concat(out)} : QuoteBegins(all) = QuoteEnds(all) + 1

\* The input ended inside a quote opened by a quote-start line.
C10_Witness ==
  /\ pc = "done"
  /\ state = Quote
  /\ consumed # <<>>
  /\ consumed[Len(consumed)] = OkLine(QuoteLine)
  /\ QuoteBegins(concat(out)) >= 1

(***************************************************************************)
(* Properties of the Inline Transformer, on the prose lines of Text.       *)
(***************************************************************************)
\* The lines of the "order" family, each with the text that the ten
\* substitutions give when applied in the order  escape `&`, strip
\* comments, superscript, bold, monospace, single quotes, double quotes,
\* emphasis, links, footnote references.
OrderCases ==
  {[line |-> BoldAndMono,
    expected |-> <<"\\textbf{", "b", "}", " ", "\\texttt{", "m", "}">>],
   [line |-> TwoSingleQuotes,
    expected |-> <<"t", " ", BACKTICK, "a", "'", " ", BACKTICK, "b", "'">>],
   [line |-> TwoDoubleQuotes,
    expected |-> <<"t", " ", BACKTICK, BACKTICK, "a", "'", "'", " ",
                   BACKTICK, BACKTICK, "b", "'", "'">>],
   [line |-> CaretInComment,
    expected |-> <<"t", "\\textsuperscript{", "a", "b", "}">>],
   [line |-> MarkupInLink,
    expected |-> <<"t", " ", "\\textbf{", "a", "}", " ", "\\url{", "u",
                   "\\emph{", "v", "}", "}">>],
   [line |-> AmpersandInQuote,
    expected |-> <<"t", " ", BACKTICK, "a", "\\", "&", "b", "'">>]}

\* C11: the Inline Transformer applies its ten substitutions in the order
\* escape `&`, comments, superscript, bold, monospace, single quotes, double
\* quotes, emphasis, links, footnote references, each on the result of the
\* one before: a prose line of Text yields the text that order gives (the
\* line  *b* `m`  yields \textbf{b} \texttt{m}), and the grave accents and
\* apostrophes written by the quote rules are not taken by the monospace
\* rule, which has run before them.
C11_SubstitutionOrder ==
  [][\A c \in OrderCases :
       (state = Text /\ Pulled /\ PulledItem = OkLine(c.line))
         => /\ out' = Append(out, c.expected \o <<NL>>)
            /\ state' = Text
            /\ errs' = errs]_vars

\* The line with bold and monospace and the line with two quoted words
\* have been converted.
C11_Witness ==
  /\ consumed = <<OkLine(BoldAndMono), OkLine(TwoSingleQuotes)>>
  /\ out = <<<<"\\textbf{", "b", "}", " ", "\\texttt{", "m", "}", NL>>,
             <<"t", " ", BACKTICK, "a", "'", " ", BACKTICK, "b", "'", NL>>>>

\* The command an instance of a construct around `body` is rewritten to.
Command(kind, body) ==
  CASE kind = "comment" -> <<>>
    [] kind = "superscript" -> <<"\\textsuperscript{">> \o body \o <<"}">>
    [] kind = "bold" -> <<"\\textbf{">> \o body \o <<"}">>
    [] kind = "monospace" -> <<"\\texttt{">> \o body \o <<"}">>
    [] kind = "single quote" -> <<BACKTICK>> \o body \o <<"'">>
    [] kind = "double quote" -> <<BACKTICK, BACKTICK>> \o body \o <<"'", "'">>
    [] kind = "emphasis" -> <<"\\emph{">> \o body \o <<"}">>
    [] kind = "link" -> body \o <<" ", "\\url{", "u", "}">>
    [] kind = "footnote reference" -> <<"\\footnotemark[">> \o body \o <<"]">>

\* The two instances of TwoInstances(kind) rewritten each on its own, the
\* text between them kept.
TwoCommands(kind) ==
  <<"t", " ">> \o Command(kind, <<"a">>) \o <<" ", "x", " ">>
  \o Command(kind, <<"b">>)

\* C12: every inline delimiter pattern matches non-greedily: for each kind
\* of construct (comment, superscript, bold, monospace, single quote, double
\* quote, emphasis, link, footnote reference) a prose line with two
\* instances and plain text between them yields two separate commands with
\* the text between them kept.
C12_NonGreedy ==
  [][\A kind \in InlineKinds :
       (state = Text /\ Pulled /\ PulledItem = OkLine(TwoInstances(kind)))
         => out' = Append(out, TwoCommands(kind) \o <<NL>>)]_vars

\* C13: comment stripping.  For a prefix and a postfix free of inline
\* syntax, the Inline Transformer maps  prefix <!-- ... --> postfix  to
\* prefix postfix, the whitespace around the comment untouched (in
\* FootnoteBody the fragment is the transformed line, in Text it is followed
\* by a newline), and a line that holds only a comment and whitespace
\* yields a fragment that is empty or whitespace.
C13_CommentStripped ==
  [][\A p \in Prefixes, c \in CommentBodies, q \in Postfixes :
       (Pulled /\ PulledItem = OkLine(p \o Comment(c) \o q))
         => /\ state = FootnoteBody => out' = Append(out, p \o q)
            /\ state = Text =>
                 IF trim(p \o q) = <<>>
                 THEN Len(out') = Len(out) + 1 /\ trim(out'[Len(out')]) = <<>>
                 ELSE out' = Append(out, p \o q \o <<NL>>)
            /\ state' = state
            /\ errs' = errs]_vars

\* Inside a footnote body, a line that is a comment between a space and a
\* tab has been converted to the space and the tab.
C13_Witness ==
  /\ consumed = <<OkLine(FootnoteDefLine),
                  OkLine(<<" ">> \o Comment(<<" ", "c", " ">>) \o <<"\t">>)>>
  /\ state = FootnoteBody
  /\ Len(out) = 2
  /\ out[2] = <<" ", "\t">>

\* The footnote-mark command of a mark.
FootnoteMark(mark) == <<"\\footnotemark[">> \o mark \o <<"]">>

\* The lines of the "marks" family, each with its marks replaced by the
\* footnote-mark command and the text around them kept.
MarkCases ==
  {[line |-> OneMark,
    expected |-> <<"t">> \o FootnoteMark(<<"1">>) \o <<" ", "u">>],
   [line |-> TwoMarks,
    expected |-> <<"t">> \o FootnoteMark(<<"1">>) \o <<" ", "u">>
                 \o FootnoteMark(<<"2">>)],
   [line |-> ThreeMarks,
    expected |-> <<"t">> \o FootnoteMark(<<"1">>) \o <<" ", "u">>
                 \o FootnoteMark(<<"2">>) \o <<" ", "v">>
                 \o FootnoteMark(<<"3">>)],
   [line |-> LongMark,
    expected |-> <<"t">> \o FootnoteMark(<<"a", "s", "d", "f">>) \o <<".">>]}

\* C14: footnote references.  A prose line with one or more marks [^mark]
\* and no other inline syntax yields the line with every mark replaced by
\* \footnotemark[mark] and the text around the marks unchanged: the
\* superscript rule does not take the marks.
C14_FootnoteMarks ==
  [][\A c \in MarkCases :
       (state = Text /\ Pulled /\ PulledItem = OkLine(c.line))
         => out' = Append(out, c.expected \o <<NL>>)]_vars

(***************************************************************************)
(* Properties of the one-line constructs of Text.                          *)
(***************************************************************************)
\* The sectioning command of a heading marker.
SectioningCommand(marker) ==
  CASE Len(marker) = 2 -> "\\chapter{"
    [] Len(marker) = 3 -> "\\section{"
    [] Len(marker) = 4 -> "\\subsection{"
    [] Len(marker) = 5 -> "\\subsubsection{"

\* C15: headings.  In Text, for each level (chapter ##, section ###,
\* subsection ####, subsubsection #####) the line  <marker> <text>  yields
\* the sectioning command of the level whose marker has the line's number
\* of "#", with <text> verbatim (no inline transformation) and a newline;
\* the line  <marker> []{#id}<text>  yields the same followed by
\* \label{id}; the Mode stays Text.
C15_Headings ==
  [][\A m \in HeadingMarkers, t \in HeadingTexts :
       /\ (state = Text /\ Pulled /\ PulledItem = OkLine(HeadingLine(m, t)))
            => /\ out' = Append(out, <<SectioningCommand(m)>> \o t \o <<"}", NL>>)
               /\ state' = Text
       /\ (state = Text /\ Pulled
           /\ PulledItem = OkLine(LabelledHeadingLine(m, HeadingId, t)))
            => /\ out' = Append(out, <<SectioningCommand(m)>> \o t
                                     \o <<"}", "\\label{">> \o HeadingId
                                     \o <<"}", NL>>)
               /\ state' = Text]_vars

(***************************************************************************)
(* Properties of the blocks.                                               *)
(***************************************************************************)
\* The fragment that closes a footnote.
FootnoteClose == <<"}", NL, NL>>

\* The footnotes opened and closed so far.
FootnotesOpened == count_in(out, "\\footnotetext[")
FootnotesClosed == Cardinality({i \in 1..Len(out) : out[i] = FootnoteClose})

\* C16: footnote definition.  In Text the line  [^mark]body  moves to
\* FootnoteBody and yields \footnotetext[mark]{, a newline, the body
\* transformed by the Inline Transformer, a newline; FootnoteBody stays
\* FootnoteBody on every non-empty line, and on the empty line that ends
\* the footnote it returns to Text and yields the closing brace: the brace a
\* definition opens is closed exactly once.
C16_FootnoteDefinition ==
  [][/\ (state = Text /\ Pulled /\ PulledItem = OkLine(FootnoteDefLine))
          => /\ state' = FootnoteBody
             /\ out' = Append(out, <<"\\footnotetext[", "1", "]{", NL, "n", NL>>)
     /\ (state = Text /\ Pulled /\ PulledItem = OkLine(FootnoteDefMarkup))
          => /\ state' = FootnoteBody
             /\ out' = Append(out, <<"\\footnotetext[", "2", "]{", NL,
                                     "\\textbf{", "n", "}", NL>>)
     /\ (state = FootnoteBody /\ Pulled /\ PulledItem.ok)
          => IF PulledItem.line = <<>>
             THEN state' = Text /\ out' = Append(out, FootnoteClose)
             ELSE /\ state' = FootnoteBody
                  /\ Len(out') = Len(out) + 1
                  /\ out'[Len(out')] # FootnoteClose
     /\ FootnotesOpened' - FootnotesClosed'
          = IF state' = FootnoteBody THEN 1 ELSE 0]_vars

\* A footnote has been defined, continued by a line of text, and ended by
\* the empty line; a second footnote is open.
C16_Witness ==
  /\ consumed = <<OkLine(FootnoteDefLine), OkLine(<<"m">>), OkLine(Blank),
                  OkLine(FootnoteDefMarkup)>>
  /\ state = FootnoteBody
  /\ out[3] = FootnoteClose
  /\ FootnotesOpened = 2
  /\ FootnotesClosed = 1

(***************************************************************************)
(* Properties of the list Modes.                                           *)
(***************************************************************************)
\* The line is an item line of the list Mode st.
ItemLine(st, line) ==
  IF st.tag = "Ordered" THEN RE_START_ENUMERATE(trim(line)).matched
  ELSE RE_START_ITEMIZE(trim(line)).matched

\* The line is an item line of the list Mode st, indented less than the
\* innermost open level.
DedentItem(st, line) ==
  /\ InList(st)
  /\ ItemLine(st, line)
  /\ leading_whitespace(line) < st.indents[Len(st.indents)]

\* The entries of a stack that a dedent to d leaves: those not greater
\* than d.
Kept(indents, d) ==
  SubSeq(indents, 1, Cardinality({i \in 1..Len(indents) : indents[i] <= d}))

\* n closing markers, each on a line of its own.
RECURSIVE Closings(_, _)
Closings(n, close) ==
  IF n = 0 THEN <<>> ELSE <<close, NL>> \o Closings(n - 1, close)

\* C17: dedent in a list Mode.  For an item line with indentation d less
\* than the top of the stack: if d is less than the base entry the line
\* fails with the nesting-underflow error, whatever the depth, nothing is
\* emitted and the stack is as it was; otherwise the entries greater than
\* d are popped, the fragment starts with one \end{..} per popped entry,
\* and then holds one \item (the top left equals d) or d is pushed and one
\* sibling environment opened (the top left is less than d).
C17_Dedent ==
  [][(Pulled /\ PulledItem.ok /\ DedentItem(state, PulledItem.line)) =>
       \E d \in {leading_whitespace(PulledItem.line)} :
         \E kept \in {Kept(state.indents, d)} :
           \E popped \in {Len(state.indents) - Len(kept)} :
             IF d < state.indents[1]
             THEN /\ out' = out
                  /\ state' = state
                  /\ errs' = Append(errs, NestingUnderflow)
             ELSE /\ errs' = errs
                  /\ popped >= 1
                  /\ SubSeq(out', 1, Len(out)) = out
                  /\ Len(out') = Len(out) + 1
                  /\ \E f \in {out'[Len(out')]} :
                       /\ SubSeq(f, 1, 2 * popped) = Closings(popped, EndOf(state))
                       /\ ListEnds(f) = popped
                       /\ count_of(f, "\\item ") = 1
                       /\ IF kept[Len(kept)] = d
                          THEN /\ state' = MkState(state.tag, kept, FALSE)
                               /\ ListBegins(f) = 0
                               /\ f[2 * popped + 1] = "\\item "
                          ELSE /\ state' = MkState(state.tag, Append(kept, d), FALSE)
                               /\ ListBegins(f) = 1
                               /\ SubSeq(f, 2 * popped + 1, 2 * popped + 3)
                                    = <<BeginOf(state), NL, "\\item ">>]_vars

\* Items at indentations 1, 2, 4, 3, 0: the fourth closed one level and
\* opened a sibling, the fifth asked to leave the base level at depth 3 and
\* was refused.
C17_Witness ==
  /\ consumed = <<OkLine(indented(1, EnumItem)), OkLine(indented(2, EnumItem)),
                  OkLine(indented(4, EnumItem)), OkLine(indented(3, EnumItem)),
                  OkLine(EnumItem)>>
  /\ state = Ordered(<<1, 2, 3>>)
  /\ errs = <<NestingUnderflow>>
  /\ Len(out) = 4
  /\ out[4] = <<"\\end{enumerate}", NL, "\\begin{enumerate}", NL,
                "\\item ", "a", NL>>

\* C18: in a list Mode with a stack of n entries, a blank line (empty or
\* whitespace only) yields exactly n closing markers of that list's
\* environment and moves to Text; it never fails.
C18_BlankClosesList ==
  [][(InList(state) /\ Pulled /\ PulledItem.ok /\ trim(PulledItem.line) = <<>>)
       => /\ state' = Text
          /\ errs' = errs
          /\ SubSeq(out', 1, Len(out)) = out
          /\ Len(out') = Len(out) + 1
          /\ \E f \in {out'[Len(out')]} :
               /\ count_of(f, EndOf(state)) = Len(state.indents)
               /\ ListEnds(f) = Len(state.indents)
               /\ ListBegins(f) = 0
               /\ count_of(f, "\\item ") = 0]_vars

\* Four levels of an itemized list have been opened and a blank line has
\* closed all four.
C18_Witness ==
  /\ consumed = <<OkLine(BulletItem), OkLine(indented(1, BulletItem)),
                  OkLine(indented(2, BulletItem)), OkLine(indented(3, BulletItem)),
                  OkLine(Blank)>>
  /\ state = Text
  /\ errs = <<>>
  /\ out[5] = Closings(4, "\\end{itemize}")

\* C19: in Text a code-fence line opens Code and yields the opening of a
\* listing environment whether or not it carries a language: the fence
\* with a language yields the opening with its options, the bare fence
\* (three grave accents alone) the opening without options.
C19_CodeFence ==
  [][/\ (state = Text /\ Pulled /\ PulledItem = OkLine(TaggedFence))
          => /\ state' = Code
             /\ Len(out') = Len(out) + 1
             /\ Head(out'[Len(out')]) = "\\begin{lstlisting}"
     /\ (state = Text /\ Pulled /\ PulledItem = OkLine(FENCE))
          => /\ state' = Code
             /\ out' = Append(out, <<"\\begin{lstlisting}", NL>>)]_vars

\* The Modes of the blocks a blank line ends.
BlankEnded == {"Quote", "FigureCaption", "TableCaption", "Literal", "FootnoteBody"}

\* The Modes of the blocks a closing token ends, and the token.
TokenEnded == {"Code", "NumberedEquation", "UnnumberedEquation"}
ClosingToken(st) == IF st.tag = "Code" THEN FENCE ELSE DOLLARS

\* The markup that closes the block of a Mode (a literal block has none).
ClosingMarkup(st) ==
  CASE st.tag = "Quote" -> <<"\\end{displayquote}">>
    [] st.tag = "FigureCaption" -> <<"}", NL, "\\end{figure}">>
    [] st.tag = "TableCaption" -> <<"}", NL, "\\end{table}">>
    [] st.tag = "FootnoteBody" -> <<"}">>
    [] st.tag = "Code" -> <<"\\end{lstlisting}">>
    [] st.tag = "NumberedEquation" -> <<"\\end{equation}">>
    [] st.tag = "UnnumberedEquation" -> <<"\\end{equation*}">>
    [] OTHER -> <<>>

\* This step ends the block of the held Mode: its closing markup is
\* yielded and the Mode is Text.
BlockEnds ==
  /\ state' = Text
  /\ Len(out') = Len(out) + 1
  /\ contains(out'[Len(out')], ClosingMarkup(state))

\* C20: block termination.  In Quote, FigureCaption, TableCaption, Literal
\* and FootnoteBody a blank line (empty, or whitespace only: the blank of
\* the Text and list handlers) ends the block, yields its closing markup
\* and returns to Text; in Code only the line equal to the closing fence
\* does, in NumberedEquation and UnnumberedEquation only the line equal to
\* "$$".
C20_BlockTermination ==
  [][(Pulled /\ PulledItem.ok) =>
       /\ (state.tag \in BlankEnded /\ trim(PulledItem.line) = <<>>) => BlockEnds
       /\ state.tag \in TokenEnded =>
            IF PulledItem.line = ClosingToken(state) THEN BlockEnds
            ELSE state' = state]_vars

(***************************************************************************)
(* Properties of the verbatim bodies, the tables and the lists.            *)
(***************************************************************************)
\* C21: verbatim bodies.  In Code every line other than the exact closing
\* fence, and in Figure every non-blank line, is yielded unchanged followed
\* by a newline and the Mode stays as it is: a line that is a structural
\* marker in Text (a heading, a list item, a table row, a quote, "$$", in
\* Code a blank line or an indented fence) causes no other transition and
\* no inline transformation.
C21_VerbatimBodies ==
  [][(Pulled /\ PulledItem.ok) =>
       /\ (state = Code /\ PulledItem.line # FENCE)
            => /\ state' = Code
               /\ out' = Append(out, PulledItem.line \o <<NL>>)
               /\ errs' = errs
       /\ (state = Figure /\ trim(PulledItem.line) # <<>>)
            => /\ state' = Figure
               /\ out' = Append(out, PulledItem.line \o <<NL>>)
               /\ errs' = errs]_vars

\* Inside a code block, a fence line with a leading space has been yielded
\* as it is and the block is still open.
C21_Witness ==
  /\ consumed = <<OkLine(TaggedFence), OkLine(<<" ">> \o FENCE)>>
  /\ state = Code
  /\ Len(out) = 2
  /\ out[2] = <<" ">> \o FENCE \o <<NL>>

\* The columns of a table-open line that ends with "|": the texts between
\* its "|".
ColumnsOf(line) == split_terminator(Tail(trim(line)), "|")

\* A column fails to parse a descriptor/label pair: it has no contents
\* ("If any columns don't have contents, we should fail", as the source
\* says where it counts the columns RE_TABLE_HEADER did not capture).
ColumnFails(col) == trim(col) = <<>>

\* The entries of the column spec of a table opening: the words between
\* "\begin{tabular}{" and the "}" that follows.
ColumnSpec(f) ==
  LET open == find_from(f, <<"\\begin{tabular}{">>, 1)
      close == find_from(f, <<"}">>, open + 1)
      words == split(SubSeq(f, open + 1, close - 1), " ")
  IN  IF close = open + 1 THEN <<>> ELSE words

\* C22: table header parsing in Text.  A table-open line (leading "|")
\* fails as a whole, with no fragment and the Mode left at Text, when it
\* does not end with "|" or when one of its columns fails to parse a
\* descriptor/label pair; when it succeeds the Mode becomes TableHeader and
\* the column spec has exactly one entry per column, "c" for a column
\* without a descriptor.
C22_TableHeader ==
  [][(/\ state = Text
      /\ Pulled
      /\ PulledItem \in Source("table heads"))
       => \E line \in {PulledItem.line} :
            IF ~ends_with(trim(line), <<"|">>)
            THEN /\ out' = out
                 /\ state' = Text
                 /\ errs' = Append(errs, TableLineEnding)
            ELSE \E cols \in {ColumnsOf(line)} :
                   IF \E i \in 1..Len(cols) : ColumnFails(cols[i])
                   THEN /\ out' = out
                        /\ state' = Text
                        /\ errs' = Append(errs, TableHeadings)
                   ELSE /\ state' = TableHeader
                        /\ errs' = errs
                        /\ Len(out') = Len(out) + 1
                        /\ \E spec \in {ColumnSpec(out'[Len(out')])} :
                             /\ Len(spec) = Len(cols)
                             /\ \A i \in 1..Len(cols) :
                                  ~starts_with(trim(cols[i]), COMMENT_OPEN)
                                    => spec[i] = <<"c">>]_vars


\* The Markdown separator of a table, the two marker phrases, and the
\* horizontal rules of a fragment.
IsSeparator(line) ==
  \/ starts_with(trim(line), <<"|", "-", "-", "-">>)
  \/ starts_with(trim(line), <<"|", " ", "-", "-", "-">>)
CarriesEveryRow(line) == contains(line, LINE_EVERY_ROW)
CarriesHeaderOnly(line) == contains(line, LINE_HEADER_ONLY)
Rules(f) == count_of(f, "\\midrule")

\* C23: the row-rule policy of a table.  In TableHeader a separator line
\* ("|---" or "| ---") is skipped with an empty fragment and the Mode stays
\* TableHeader; a line with the rule-every-row marker leads to
\* TableBody(true); a line with the rule-header-only marker emits exactly
\* one rule and leads to TableBody(false); any other line leads to
\* TableBody(false) with no rule.  In TableBody(true) every row fragment
\* starts with one rule, in TableBody(false) no row fragment has a rule, and
\* the flag does not change until the blank line that opens the caption.
C23_RowRules ==
  [][(Pulled /\ PulledItem.ok)
       => \E line \in {PulledItem.line} :
            /\ state.tag = "TableHeader"
                 => /\ errs' = errs
                    /\ Len(out') = Len(out) + 1
                    /\ \E f \in {out'[Len(out')]} :
                         IF IsSeparator(line)
                         THEN state' = TableHeader /\ f = <<>>
                         ELSE IF CarriesEveryRow(line)
                         THEN state' = TableBody(TRUE) /\ f = <<>>
                         ELSE IF CarriesHeaderOnly(line)
                         THEN state' = TableBody(FALSE) /\ Rules(f) = 1
                         ELSE state' = TableBody(FALSE) /\ Rules(f) = 0
            /\ (state.tag = "TableBody" /\ trim(line) # <<>>)
                 => /\ state' = state
                    /\ errs' = errs
                    /\ Len(out') = Len(out) + 1
                    /\ \E f \in {out'[Len(out')]} :
                         IF state.line_every_row
                         THEN Rules(f) = 1 /\ f[1] = "\\midrule"
                         ELSE Rules(f) = 0
            /\ (state.tag = "TableBody" /\ trim(line) = <<>>)
                 => state' = TableCaption]_vars

\* A table under the rule-every-row policy whose second row has its rule,
\* after a separator that was skipped.
C23_Witness ==
  /\ Len(consumed) = 5
  /\ consumed[2] = OkLine(SeparatorLine)
  /\ consumed[3] = OkLine(EveryRowLine)
  /\ state = TableBody(TRUE)
  /\ out[2] = <<>>
  /\ out[3] = <<>>
  /\ Rules(out[4]) = 1
  /\ out[5][1] = "\\midrule"


\* The environment markup of the lists.
ListMarkup ==
  {"\\begin{enumerate}", "\\end{enumerate}", "\\begin{itemize}",
   "\\end{itemize}", "\\item "}

\* C24: list continuation.  In a list Mode a non-blank line that is not an
\* item line of that list (an item line of the other list kind and an
\* indented line included) leaves the Mode and the whole indentation stack
\* unchanged, does not fail, and emits the inline-transformed trimmed text
\* and a newline, with no environment markup.
C24_Continuation ==
  [][(/\ InList(state)
      /\ Pulled
      /\ PulledItem.ok
      /\ trim(PulledItem.line) # <<>>
      /\ ~ItemLine(state, PulledItem.line))
       => /\ state' = state
          /\ errs' = errs
          /\ out' = Append(out, simple_string_process(trim(PulledItem.line))
                                \o <<NL>>)
          /\ \A i \in 1..Len(out'[Len(out')]) :
               out'[Len(out')][i] \notin ListMarkup
          /\ PulledItem.line = MarkupContinuation
               => out'[Len(out')] = <<"\\textbf{", "c", "}", NL>>
          /\ PulledItem.line = EnumItem
               => out'[Len(out')] = EnumItem \o <<NL>>]_vars

\* An enumerated list continued by a bullet line and by an indented line
\* with markup: the stack is the one the opening line left.
C24_Witness ==
  /\ consumed = <<OkLine(EnumItem), OkLine(BulletItem),
                  OkLine(MarkupContinuation)>>
  /\ state = Ordered(<<0>>)
  /\ errs = <<>>
  /\ out[2] = BulletItem \o <<NL>>
  /\ out[3] = <<"\\textbf{", "c", "}", NL>>


\* The line is an item line for the Mode st: of that list in a list Mode, of
\* either list in Text.
ItemLineFor(st, line) ==
  \/ InList(st) /\ ItemLine(st, line)
  \/ /\ st = Text
     /\ \/ RE_START_ITEMIZE(trim(line)).matched
        \/ RE_START_ENUMERATE(trim(line)).matched

\* The leading-whitespace counts of the lines read so far.
IndentsRead ==
  {leading_whitespace(consumed[k].line) :
     k \in {j \in 1..Len(consumed) : consumed[j].ok}}

\* C25: indentation overflow.  A list-item line with more than 255 leading
\* whitespace characters fails with the indentation-overflow error, when it
\* would open a list from Text and when it arrives in a list Mode, with no
\* fragment and the Mode unchanged; so every value stored in an indentation
\* stack lies in 0..255 and is the untruncated count of a line read.
C25_IndentOverflow ==
  /\ [](InList(state) =>
          \A i \in 1..Len(state.indents) :
            /\ state.indents[i] \in 0..U8_MAX
            /\ state.indents[i] \in IndentsRead)
  /\ [][(/\ Pulled
         /\ PulledItem.ok
         /\ ItemLineFor(state, PulledItem.line)
         /\ leading_whitespace(PulledItem.line) > U8_MAX)
          => /\ out' = out
             /\ state' = state
             /\ errs' = Append(errs, IndentOverflow)]_vars

\* An itemized list opened at indentation 255 that refused an item at 256.
C25_Witness ==
  /\ consumed = <<OkLine(indented(U8_MAX, BulletItem)),
                  OkLine(indented(U8_MAX + 1, BulletItem))>>
  /\ state = Unordered(<<U8_MAX>>)
  /\ errs = <<IndentOverflow>>
  /\ Len(out) = 1


\* The stack is strictly increasing from bottom to top.
StrictlyIncreasing(indents) ==
  \A i \in 1..(Len(indents) - 1) : indents[i] < indents[i + 1]

\* A step from the stack a to the stack b of a list that stays open: some
\* entries are removed from the top, the bottom one never, and then at most
\* one entry is pushed, greater than the top it is pushed on.
StackStep(a, b) ==
  \E k \in 1..Len(a) :
    /\ Len(b) >= k
    /\ SubSeq(b, 1, k) = SubSeq(a, 1, k)
    /\ \/ Len(b) = k
       \/ Len(b) = k + 1 /\ b[k + 1] > a[k]

\* C26: in every reachable list Mode the indentation stack is strictly
\* increasing from bottom to top; an entry is pushed only when it is
\* greater than the current top, entries are removed only from the top,
\* and the bottom entry is the indentation of the line that opened the
\* list and does not change while the list is open.
C26_StackOrder ==
  /\ [](InList(state) => StrictlyIncreasing(state.indents))
  /\ [][/\ (Pulled /\ ~InList(state) /\ InList(state'))
             => state'.indents = <<leading_whitespace(PulledItem.line)>>
        /\ (InList(state) /\ InList(state'))
             => StackStep(state.indents, state'.indents)]_vars

\* An enumerated list opened at indentation 1, nested to 3 and 4, then
\* brought back by an item at 2: two levels are removed from the top and
\* one is pushed on the bottom entry.
C26_Witness ==
  /\ Len(consumed) = 4
  /\ \A k \in 1..4 : consumed[k].ok
  /\ [k \in 1..4 |-> leading_whitespace(consumed[k].line)] = <<1, 3, 4, 2>>
  /\ state = Ordered(<<1, 2>>)
  /\ errs = <<>>


\* The Modes a block starts in, all entered from Text, and the phase that
\* follows a Mode inside its block.
OpeningModes ==
  {"Ordered", "Unordered", "Quote", "Code", "Figure", "TableHeader",
   "Literal", "FootnoteBody", "NumberedEquation", "UnnumberedEquation"}
SuccessorPhase(tag) ==
  CASE tag = "Figure" -> {"FigureCaption"}
    [] tag = "TableHeader" -> {"TableBody"}
    [] tag = "TableBody" -> {"TableCaption"}
    [] OTHER -> {}
ModeEdges(tag) ==
  IF tag = "Text" THEN OpeningModes \cup {"Text"}
  ELSE {tag, "Text"} \cup SuccessorPhase(tag)

\* C27: the Mode transition graph; blocks never nest.  The ten opening
\* Modes are entered only from Text, FigureCaption only from Figure,
\* TableBody only from TableHeader, TableCaption only from TableBody; a
\* Mode other than Text steps only to itself, to the phase that follows it
\* or to Text; an Ordered list does not become Unordered, nor the reverse,
\* without passing through Text.
C27_ModeGraph ==
  [][state'.tag \in ModeEdges(state.tag)]_vars

\* An enumerated list that met a bullet line, stayed Ordered, was closed by
\* a blank line and only then gave way to an itemized list.
C27_Witness ==
  /\ consumed = <<OkLine(EnumItem), OkLine(BulletItem), OkLine(Blank),
                  OkLine(BulletItem)>>
  /\ state = Unordered(<<0>>)
  /\ Len(out) = 4
  /\ out[2] = BulletItem \o <<NL>>
  /\ out[3] = <<"\\end{enumerate}", NL>>


(***************************************************************************)
(* Properties of the whole Mode machine.                                   *)
(***************************************************************************)
\* The fragments with which the handlers close a caption.
FigureClose == <<"}", NL, "\\end{figure}", NL, NL>>
TableClose == <<"}", NL, "\\end{table}", NL, NL>>

\* The number of fragments emitted so far that are one of closes.
Fragments(closes) == Cardinality({i \in 1..Len(out) : out[i] \in closes})

\* 1 when the held Mode is one of tags, else 0.
Inside(tags) == IF state.tag \in tags THEN 1 ELSE 0

\* The open levels of the list kind tag.
Depth(tag) == IF state.tag = tag THEN Len(state.indents) ELSE 0

\* C28: markup balance.  After any sequence of input lines, failing lines
\* included, and counting the markup the handlers emit themselves, each
\* environment or brace they open (figure, table, tabular, lstlisting,
\* displayquote, equation, equation*, enumerate, itemize, \caption{,
\* \footnotetext[..]{) is open exactly when the held Mode lies inside the
\* Modes of its block (a list: once per level of its stack); so when the
\* held Mode is Text every opening emitted so far has been matched by
\* exactly one closing.
C28_MarkupBalance ==
  \E all \in {concat(out)} :
    /\ count_of(all, "\\begin{figure}") - count_of(all, "\\end{figure}")
         = Inside({"Figure", "FigureCaption"})
    /\ count_of(all, "\\begin{table}") - count_of(all, "\\end{table}")
         = Inside({"TableHeader", "TableBody", "TableCaption"})
    /\ count_of(all, "\\begin{tabular}{") - count_of(all, "\\end{tabular}")
         = Inside({"TableHeader", "TableBody"})
    /\ count_of(all, "\\begin{lstlisting}") - count_of(all, "\\end{lstlisting}")
         = Inside({"Code"})
    /\ count_of(all, "\\begin{displayquote}")
         - count_of(all, "\\end{displayquote}")
         = Inside({"Quote"})
    /\ count_of(all, "\\begin{equation}\\label{")
         - count_of(all, "\\end{equation}")
         = Inside({"NumberedEquation"})
    /\ count_of(all, "\\begin{equation*}") - count_of(all, "\\end{equation*}")
         = Inside({"UnnumberedEquation"})
    /\ count_of(all, "\\begin{enumerate}") - count_of(all, "\\end{enumerate}")
         = Depth("Ordered")
    /\ count_of(all, "\\begin{itemize}") - count_of(all, "\\end{itemize}")
         = Depth("Unordered")
    /\ count_of(all, "\\caption{") - Fragments({FigureClose, TableClose})
         = Inside({"FigureCaption", "TableCaption"})
    /\ count_of(all, "\\footnotetext[") - Fragments({FootnoteClose})
         = Inside({"FootnoteBody"})

\* A figure with its caption and a quote have been opened and closed in
\* turn, and the Mode is Text again.
C28_Witness ==
  /\ state = Text
  /\ Len(consumed) = 5
  /\ consumed[1] = OkLine(FigureOpenLine)
  /\ \E all \in {concat(out)} :
       /\ count_of(all, "\\begin{figure}") = 1
       /\ count_of(all, "\\end{figure}") = 1
       /\ count_of(all, "\\caption{") = 1
       /\ count_of(all, "\\begin{displayquote}") = 1
       /\ count_of(all, "\\end{displayquote}") = 1


\* The Mode after the lines are fed to the handlers from the Mode st, and
\* whether one of them failed.
RECURSIVE Feed(_, _)
Feed(st, lines) ==
  IF lines = <<>> THEN [state |-> st, failed |-> FALSE]
  ELSE LET res == process_line(st, Head(lines))
       IN  IF res.kind = "Ok" THEN Feed(res.state, Tail(lines))
           ELSE [state |-> st, failed |-> TRUE]

\* The longest feed considered: a table header needs three blank lines
\* (body, caption, Text).
EscapeBound == 3

\* The blank lines, and the lines of a way out: a blank line or a closing
\* token.
BlankLines == {Blank, WhitespaceLine}
EscapeLines == {Blank, FENCE, DOLLARS}

\* The feed brings the Mode st back to Text, and no line of it fails.
Escapes(st, lines) ==
  \E r \in {Feed(st, lines)} : r.state = Text /\ ~r.failed

\* C29: no Mode is a trap.  From every reachable Mode some finite sequence
\* of lines brings the Driver back to Text without a failure; blank lines
\* alone, whichever they are, bring it to Text from every Mode except
\* Code, NumberedEquation and UnnumberedEquation, which stay in place on
\* every blank line and return to Text only on their closing token.
C29_NoTrap ==
  /\ \E k \in 0..EscapeBound :
       \E lines \in [1..k -> EscapeLines] : Escapes(state, lines)
  /\ state.tag \notin TokenEnded =>
       \A lines \in [1..EscapeBound -> BlankLines] :
         \E k \in 0..EscapeBound : Escapes(state, SubSeq(lines, 1, k))
  /\ state.tag \in TokenEnded =>
       /\ \A line \in BlankLines :
            \E res \in {process_line(state, line)} :
              res.kind = "Ok" /\ res.state = state
       /\ \A item \in Source(corpus) :
            (item.ok /\ Escapes(state, <<item.line>>))
              => item.line = ClosingToken(state)

=============================================================================
